---- MODULE Spec2Model ----
(***************************************************************************)
(* PV polling scheduler of src/netatmo_dashboard.py                        *)
(* (class Dashboard7inchRedesigned, "PV - Abfragefenster & Followups").    *)
(*                                                                         *)
(* Time is counted in minutes since local midnight of day 0.  The clock    *)
(* `now` moves over a grid of instants (TodPoints of every day); a grid    *)
(* value stands for every instant up to the next grid point, so a timer    *)
(* whose delay is shorter than the slot may fire in the slot it was armed  *)
(* in or in the next one.  Timer delays are kept in seconds, polling       *)
(* intervals as exact fractions of seconds (Python computes them as        *)
(* floats; rounding of the floats is not modelled).                        *)
(*                                                                         *)
(* Every method of the class is an operator from a state record to a state *)
(* record, so that a handler that calls other methods is one action.       *)
(*                                                                         *)
(* The scheduler takes the ephemeris as a provider that delivers or does   *)
(* not (Env); init_skyfield and find_sun_crossing_time are modelled on     *)
(* their own in SpecSky, whose time axis is the search bracket.            *)
(***************************************************************************)
EXTENDS Integers, Sequences, FiniteSets, TLC

VARIABLES pc, now,
          pv_window_timer, pv_query_timer, pv_followup_timer,
          pv_civil_dawn, pv_sunrise, pv_sunset, pv_civil_dusk,
          pv_max_queries, pv_queries_today, pv_query_date,
          pv_interval_ramp, pv_interval_core, last_pv_power,
          pv_attempts_today, pv_consecutive_failures,
          pv_threads, after0, ev, pause_seen,
          SKYFIELD_AVAILABLE, eph_file, search, sky_ev, sky_refused,
          solar_noon, _is_shutting_down, saved, shutdown_pending,
          _netatmo_fetch_lock, netatmo_threads,
          _last_netatmo_update, _netatmo_retry_count

\* the PV fields of the dashboard object, the Tk side and the step log
schedVars == <<pc, now, pv_window_timer, pv_query_timer, pv_followup_timer,
          pv_civil_dawn, pv_sunrise, pv_sunset, pv_civil_dusk,
          pv_max_queries, pv_queries_today, pv_query_date,
          pv_interval_ramp, pv_interval_core, last_pv_power,
          pv_attempts_today, pv_consecutive_failures,
          pv_threads, after0, ev, pause_seen>>

\* the ephemeris globals (SKYFIELD_AVAILABLE; eph_file is de421.bsp on disk),
\* the frame of find_sun_crossing_time and the log of the ephemeris steps
skyVars == <<SKYFIELD_AVAILABLE, eph_file, search, sky_ev, sky_refused>>

\* the frame of _calculate_solar_noon, the shutdown flag of the dashboard
\* object, the number of times _shutdown has saved the data and the timers
\* that were pending when _shutdown ran (not program state)
appVars == <<solar_noon, _is_shutting_down, saved, shutdown_pending,
             _netatmo_fetch_lock, netatmo_threads,
             _last_netatmo_update, _netatmo_retry_count>>

\* the Netatmo fields of the dashboard object (the lock is held or not) and
\* the frames of the _bg_fetch_netatmo workers
netatmoVars == <<_netatmo_fetch_lock, netatmo_threads,
                 _last_netatmo_update, _netatmo_retry_count>>

vars == <<schedVars, skyVars, appVars>>

-----------------------------------------------------------------------------
(* Bounds of the model *)

\* daily budget used by the scheduler runs (the program sets 280, see DailyBudget)
MaxQueries == 3
\* fetch results are applied only while pv_attempts_today is below this
MaxAttempts == 7
\* last calendar day of the clock
MaxDay == 1

(* Program constants *)

DailyBudget == 280
DayMin == 1440
PauseThreshold == 5
CORE_WEIGHT == 5
RAMP_WEIGHT == 1

\* instants of a day the clock visits: midnight (before the window), civil
\* dawn (dawn ramp), noon (core), civil dusk (dusk ramp), 21:00 (after the window)
TodPoints == {0, 360, 720, 1230, 1260}

-----------------------------------------------------------------------------
(* Python values *)

\* None is the empty tuple, any other value v is <<v>>
None == <<>>
Some(v) == <<v>>
IsSome(o) == o # <<>>
Val(o) == o[1]

Max(a, b) == IF a >= b THEN a ELSE b

\* a fraction of seconds
Rat(n, d) == [num |-> n, den |-> d]

Date(t) == t \div DayMin

Horizon == (MaxDay + 1) * DayMin

Points == {d * DayMin + p : d \in 0..MaxDay, p \in TodPoints}

NextPoint(t) ==
    IF \E p \in Points : p > t
    THEN CHOOSE p \in Points : p > t /\ \A q \in Points : q > t => p <= q
    ELSE Horizon

\* current power reported by the inverter: missing, 0 W (night), producing
Powers == {None, Some(0), Some(1500)}

\* what _bg_fetch_pv hands over: None after an exception, else the tuple
\* (current_power, daily, monthly, yearly), of which only current_power is kept
Results == {None} \cup {Some(p) : p \in Powers}

EmptyLog(op) ==
    [op |-> op, mode |-> "", ok |-> FALSE, via |-> "", day |-> 0,
     armed |-> <<>>, cancelled |-> <<>>, started |-> <<>>, sink |-> 0,
     prov |-> <<>>]

\* the step armed a 15-minute pause timer (pv_query_timer is never one: it
\* carries the phase interval, which may be 900 s as well)
PauseArmed(log) ==
    \E i \in 1..Len(log.armed) :
        log.armed[i].delay = 15 * 60 /\ log.armed[i].timer # "pv_query_timer"

-----------------------------------------------------------------------------
(* External providers *)

\* get_civil_twilight_skyfield(date): (dawn, dusk) of the date, or (None, None)
get_civil_twilight_skyfield(date, available) ==
    IF available
    THEN <<Some(date * DayMin + 360), Some(date * DayMin + 1230)>>
    ELSE <<None, None>>

\* fetch_sunrise_sunset_datetimes_local(): (sunrise, sunset) of today from
\* api.met.no, or (None, None)
fetch_sunrise_sunset_datetimes_local(date, available) ==
    IF available
    THEN <<Some(date * DayMin + 390), Some(date * DayMin + 1200)>>
    ELSE <<None, None>>

\* outcome of the provider calls made inside one handler
Env == [sky : BOOLEAN, met1 : BOOLEAN, met2 : BOOLEAN, skyT : BOOLEAN]

\* what the providers return to schedule_pv_window on the given date under
\* the outcome e: the twilight pair, the first and the second answer of
\* api.met.no, and whether tomorrow's twilight can be computed
Delivered(date, e) ==
    [sky |-> get_civil_twilight_skyfield(date, e.sky),
     met1 |-> fetch_sunrise_sunset_datetimes_local(date, e.met1),
     met2 |-> fetch_sunrise_sunset_datetimes_local(date, e.met2),
     skyT |-> e.skyT]

-----------------------------------------------------------------------------
(* The ephemeris: init_skyfield, get_sun_elevation_skyfield and             *)
(* find_sun_crossing_time                                                   *)

\* "for _ in range(30)"
BisectionIterations == 30

\* calls of find_sun_crossing_time in one behaviour
MaxCalls == 2

\* Time of the search: the bracket of 12 hours (midnight to noon, noon to
\* midnight) is 2^30 units long, so that every midpoint of 30 halvings is a
\* whole number of units; one unit is about 40 microseconds.
BracketUnits == 2^30

\* whole units in one second
SecondUnits == BracketUnits \div (12 * 60 * 60)

CIVIL_TWILIGHT_ANGLE == -6

\* where the sun crosses the target elevation, in units from the start of
\* the bracket: at the start (the bracket does not enclose the crossing), one
\* unit after it, at the first midpoint, at a point that is no midpoint of
\* any iteration, and at the end
Crossings == {0, 1, 2^29, 715827883, 2^30}

\* de421.bsp on disk
EphFiles == {"missing", "corrupt", "loadable"}

\* no call of find_sun_crossing_time has been made
NoSearch ==
    [pc |-> "idle", rising |-> TRUE, crossing |-> 0, start_t |-> 0, end_t |-> 0,
     i |-> 0, ret |-> None, calls |-> 0, prev |-> None]

\* _bg_fetch_netatmo workers alive at a time
MaxWorkers == 2

Workers == 1..MaxWorkers

\* no thread: the frame of a worker is where it is in _bg_fetch_netatmo, the
\* loop variable, the local "wait", whether it holds the lock, whether it has
\* asked for the authorization code, the attempts it has made, the results
\* it has handed over and whether its result has been applied
NoWorker ==
    [pc |-> "idle", attempt |-> 0, wait |-> 0, held |-> FALSE, prompted |-> FALSE,
     fetches |-> 0, handed |-> 0, applied |-> FALSE]

\* _calculate_solar_noon has not been called
NoNoon ==
    [pc |-> "idle", culmination |-> 0, height |-> 0, hour |-> 0, minute |-> 0,
     max_elev |-> 0, noon_hour |-> 0, noon_minute |-> 0, ret |-> None]

\* __init__: no shutdown, the lock free and no worker; no solar noon yet
AppIdle ==
    /\ solar_noon = NoNoon
    /\ _is_shutting_down = FALSE
    /\ saved = 0
    /\ shutdown_pending = {}
    /\ _netatmo_fetch_lock = FALSE
    /\ netatmo_threads = [i \in Workers |-> NoWorker]
    /\ _last_netatmo_update = None
    /\ _netatmo_retry_count = 0

\* the module as imported: SKYFIELD_AVAILABLE = None
NotLoaded ==
    /\ SKYFIELD_AVAILABLE = None
    /\ search = NoSearch
    /\ sky_ev = [op |-> "import", ret |-> None]
    /\ sky_refused = FALSE

\* mutant: a False from an earlier call is final
init_skyfield_once(available, file) ==
    IF available # None
    THEN [ret |-> Val(available), SKYFIELD_AVAILABLE |-> available]
    ELSE IF file = "loadable"
    THEN [ret |-> TRUE, SKYFIELD_AVAILABLE |-> Some(TRUE)]
    ELSE [ret |-> FALSE, SKYFIELD_AVAILABLE |-> Some(FALSE)]

\* init_skyfield(): the value returned and SKYFIELD_AVAILABLE afterwards
init_skyfield(available, file) ==
    IF available = Some(TRUE)
    THEN [ret |-> TRUE, SKYFIELD_AVAILABLE |-> available]
    ELSE IF file = "missing"
    THEN [ret |-> FALSE,
          SKYFIELD_AVAILABLE |-> IF available = None THEN Some(FALSE) ELSE available]
    ELSE IF file = "loadable"
    THEN [ret |-> TRUE, SKYFIELD_AVAILABLE |-> Some(TRUE)]
    ELSE [ret |-> FALSE, SKYFIELD_AVAILABLE |-> Some(FALSE)]

\* the elevation of the sun at t: monotonic over the bracket, rising or
\* falling, and equal to the target at the crossing
SunElevation(t, rising, crossing) ==
    CIVIL_TWILIGHT_ANGLE + (IF rising THEN t - crossing ELSE crossing - t)

\* get_sun_elevation_skyfield(t): 0 ("Fallback: Horizont") without ephemeris
get_sun_elevation_skyfield(available, file, t, rising, crossing) ==
    IF ~init_skyfield(available, file).ret
    THEN 0
    ELSE SunElevation(t, rising, crossing)

\* mutant: the loop runs ten times
LoopRuns_ten_times(i) == i < 10

\* "for _ in range(30)": the loop body runs once more after i iterations
LoopRuns(i) == i < BisectionIterations

\* find_sun_crossing_time up to the loop: None when init_skyfield() fails,
\* else the bracket [start_t, end_t] of the call
EnterSearch(f, ok, rising, crossing) ==
    [pc |-> IF ok THEN "loop" ELSE "done",
     rising |-> rising, crossing |-> crossing,
     start_t |-> 0, end_t |-> BracketUnits,
     i |-> 0, ret |-> None, calls |-> f.calls + 1, prev |-> f.ret]

\* mutant: the falling search moves the bracket as the rising one does
Bisect_rising_only(f, available, file) ==
    LET mid_t == (f.start_t + f.end_t) \div 2
        mid_elev == get_sun_elevation_skyfield(available, file, mid_t, f.rising, f.crossing)
    IN  IF mid_elev < CIVIL_TWILIGHT_ANGLE
        THEN [f EXCEPT !.start_t = mid_t, !.i = @ + 1]
        ELSE [f EXCEPT !.end_t = mid_t, !.i = @ + 1]

\* one iteration of the loop of find_sun_crossing_time
Bisect(f, available, file) ==
    LET mid_t == (f.start_t + f.end_t) \div 2
        mid_elev == get_sun_elevation_skyfield(available, file, mid_t, f.rising, f.crossing)
    IN  IF f.rising
        THEN IF mid_elev < CIVIL_TWILIGHT_ANGLE
             THEN [f EXCEPT !.start_t = mid_t, !.i = @ + 1]
             ELSE [f EXCEPT !.end_t = mid_t, !.i = @ + 1]
        ELSE IF mid_elev > CIVIL_TWILIGHT_ANGLE
             THEN [f EXCEPT !.start_t = mid_t, !.i = @ + 1]
             ELSE [f EXCEPT !.end_t = mid_t, !.i = @ + 1]

\* "return TS.tt_jd((start_t.tt + end_t.tt) / 2)"
ReturnMidpoint(f) ==
    [f EXCEPT !.pc = "done", !.ret = Some(Rat(f.start_t + f.end_t, 2))]

-----------------------------------------------------------------------------
(* The state as one record *)

St ==
    [pc |-> pc, now |-> now,
     pv_window_timer |-> pv_window_timer, pv_query_timer |-> pv_query_timer,
     pv_followup_timer |-> pv_followup_timer,
     pv_civil_dawn |-> pv_civil_dawn, pv_sunrise |-> pv_sunrise,
     pv_sunset |-> pv_sunset, pv_civil_dusk |-> pv_civil_dusk,
     pv_max_queries |-> pv_max_queries, pv_queries_today |-> pv_queries_today,
     pv_query_date |-> pv_query_date,
     pv_interval_ramp |-> pv_interval_ramp, pv_interval_core |-> pv_interval_core,
     last_pv_power |-> last_pv_power,
     pv_attempts_today |-> pv_attempts_today,
     pv_consecutive_failures |-> pv_consecutive_failures,
     pv_threads |-> pv_threads, after0 |-> after0, ev |-> ev]

\* the PV fields and the Tk side after a step
CommitPv(s) ==
    /\ pc' = s.pc
    /\ now' = s.now
    /\ pv_window_timer' = s.pv_window_timer
    /\ pv_query_timer' = s.pv_query_timer
    /\ pv_followup_timer' = s.pv_followup_timer
    /\ pv_civil_dawn' = s.pv_civil_dawn
    /\ pv_sunrise' = s.pv_sunrise
    /\ pv_sunset' = s.pv_sunset
    /\ pv_civil_dusk' = s.pv_civil_dusk
    /\ pv_max_queries' = s.pv_max_queries
    /\ pv_queries_today' = s.pv_queries_today
    /\ pv_query_date' = s.pv_query_date
    /\ pv_interval_ramp' = s.pv_interval_ramp
    /\ pv_interval_core' = s.pv_interval_core
    /\ last_pv_power' = s.last_pv_power
    /\ pv_attempts_today' = s.pv_attempts_today
    /\ pv_consecutive_failures' = s.pv_consecutive_failures
    /\ pv_threads' = s.pv_threads
    /\ after0' = s.after0
    /\ ev' = s.ev
    /\ pause_seen' = (pause_seen \/ PauseArmed(s.ev))

Commit(s) ==
    /\ CommitPv(s)
    /\ UNCHANGED <<skyVars, appVars>>

-----------------------------------------------------------------------------
(* Tk timers and worker threads *)

\* root.after_cancel(self.<timer>) guarded by "if self.<timer>"
CancelTimer(s, timer) ==
    IF IsSome(s[timer])
    THEN [s EXCEPT ![timer] = None, !.ev.cancelled = Append(@, timer)]
    ELSE s

\* self.<timer> = root.after(delay, cb)
ArmTimer(s, timer, cb, delay_s) ==
    [s EXCEPT ![timer] = Some([cb |-> cb, due |-> s.now + (delay_s \div 60),
                               delay |-> delay_s, by |-> ""]),
              !.ev.armed = Append(@, [timer |-> timer, cb |-> cb, delay |-> delay_s])]

\* records which method armed the timer (not program state)
TagTimer(s, timer, by) ==
    [s EXCEPT ![timer] = Some([Val(@) EXCEPT !.by = by])]

\* threading.Thread(target=self._bg_fetch_pv, args=(mode,)).start()
StartThread(s, mode, via) ==
    [s EXCEPT !.pv_threads = Append(@, [mode |-> mode, late |-> FALSE, via |-> via,
                                        day |-> Date(s.now)]),
              !.ev.started = Append(@, mode)]

-----------------------------------------------------------------------------
(* update_pv_labels: the metric sink *)

update_pv_labels(s, current_power) ==
    [s EXCEPT !.last_pv_power = current_power, !.ev.sink = @ + 1]

-----------------------------------------------------------------------------
(* schedule_pv_window and its helpers *)

pv_query_step(s, via) == StartThread(s, "smart", via)

pv_followup_step(s, via) == StartThread(s, "followup", via)

pv_single_update(s) == StartThread(s, "single", "run")

_schedule_pv_retry(s, delay_s, start_queries) ==
    LET c == CancelTimer(s, "pv_window_timer")
    IN  IF start_queries
        THEN ArmTimer(c, "pv_window_timer", "pv_query_step", delay_s)
        ELSE ArmTimer(c, "pv_window_timer", "schedule_pv_window", delay_s)

\* mutant: no 12-hour retry when tomorrow's civil dawn cannot be computed
_schedule_next_day_no_fallback(s, skyT) ==
    LET tomorrow == Date(s.now) + 1
        civil_dawn_tomorrow == get_civil_twilight_skyfield(tomorrow, skyT)[1]
    IN  IF IsSome(civil_dawn_tomorrow)
        THEN TagTimer(_schedule_pv_retry(s, Max((Val(civil_dawn_tomorrow) - s.now) * 60, 60),
                                         TRUE),
                      "pv_window_timer", "_schedule_next_day")
        ELSE s

_schedule_next_day(s, skyT) ==
    LET tomorrow == Date(s.now) + 1
        civil_dawn_tomorrow == get_civil_twilight_skyfield(tomorrow, skyT)[1]
        r == IF IsSome(civil_dawn_tomorrow)
             THEN _schedule_pv_retry(s, Max((Val(civil_dawn_tomorrow) - s.now) * 60, 60), TRUE)
             ELSE _schedule_pv_retry(s, 12 * 60 * 60, FALSE)
    IN  TagTimer(r, "pv_window_timer", "_schedule_next_day")

\* "Phasendauern in Minuten berechnen": the durations of the dawn ramp, the
\* core and the dusk ramp, none negative
PhaseMinutes(civil_dawn, sunrise_dt, sunset_dt, civil_dusk) ==
    [ramp_morning_min |-> Max(0, sunrise_dt - civil_dawn),
     core_min |-> Max(0, sunset_dt - sunrise_dt),
     ramp_evening_min |-> Max(0, civil_dusk - sunset_dt)]

\* "Gewichtete Minuten"
weighted_total(m) ==
    m.ramp_morning_min * RAMP_WEIGHT + m.core_min * CORE_WEIGHT
    + m.ramp_evening_min * RAMP_WEIGHT

\* mutant: the shares are rounded to the nearest whole number
FloorCounts_rounded_to_nearest(budget, m) ==
    LET W == weighted_total(m)
    IN  [queries_ramp_morning |-> (2 * budget * (m.ramp_morning_min * RAMP_WEIGHT) + W)
                                      \div (2 * W),
         queries_core |-> (2 * budget * (m.core_min * CORE_WEIGHT) + W) \div (2 * W),
         queries_ramp_evening |-> (2 * budget * (m.ramp_evening_min * RAMP_WEIGHT) + W)
                                      \div (2 * W)]

\* the three int(...) of "Abfragen pro Phase", before the correction of the
\* sum (weighted_total(m) > 0)
FloorCounts(budget, m) ==
    LET W == weighted_total(m)
    IN  [queries_ramp_morning |-> (budget * (m.ramp_morning_min * RAMP_WEIGHT)) \div W,
         queries_core |-> (budget * (m.core_min * CORE_WEIGHT)) \div W,
         queries_ramp_evening |-> (budget * (m.ramp_evening_min * RAMP_WEIGHT)) \div W]

\* mutant: the shares are rounded up instead of cut off
PhaseQueries_rounded_up(budget, m) ==
    LET W == weighted_total(m)
        queries_ramp_morning == (budget * (m.ramp_morning_min * RAMP_WEIGHT) + W - 1) \div W
        queries_core0 == (budget * (m.core_min * CORE_WEIGHT) + W - 1) \div W
        queries_ramp_evening == (budget * (m.ramp_evening_min * RAMP_WEIGHT) + W - 1) \div W
        total_queries == queries_ramp_morning + queries_core0 + queries_ramp_evening
    IN  [queries_ramp_morning |-> queries_ramp_morning,
         queries_core |-> IF total_queries > budget
                          THEN queries_core0 - (total_queries - budget)
                          ELSE queries_core0,
         queries_ramp_evening |-> queries_ramp_evening]

\* "Abfragen pro Phase": int() of each phase's share of the budget, an excess
\* of the sum over the budget taken from the core (weighted_total(m) > 0)
PhaseQueries(budget, m) ==
    LET W == weighted_total(m)
        queries_ramp_morning == (budget * (m.ramp_morning_min * RAMP_WEIGHT)) \div W
        queries_core0 == (budget * (m.core_min * CORE_WEIGHT)) \div W
        queries_ramp_evening == (budget * (m.ramp_evening_min * RAMP_WEIGHT)) \div W
        total_queries == queries_ramp_morning + queries_core0 + queries_ramp_evening
    IN  [queries_ramp_morning |-> queries_ramp_morning,
         queries_core |-> IF total_queries > budget
                          THEN queries_core0 - (total_queries - budget)
                          ELSE queries_core0,
         queries_ramp_evening |-> queries_ramp_evening]

\* the budget allocation of schedule_pv_window ("Phasendauern ... Intervalle
\* berechnen"): the four boundaries are minutes, the intervals seconds
AllocateIntervals(s, civil_dawn, sunrise_dt, sunset_dt, civil_dusk) ==
    LET m == PhaseMinutes(civil_dawn, sunrise_dt, sunset_dt, civil_dusk)
    IN  IF weighted_total(m) <= 0
        THEN [s EXCEPT !.pv_interval_ramp = Some(Rat(10 * 60, 1)),
                       !.pv_interval_core = Some(Rat(2 * 60, 1))]
        ELSE LET q == PhaseQueries(s.pv_max_queries, m)
             IN  [s EXCEPT
                    !.pv_interval_ramp =
                        IF q.queries_ramp_morning > 0 /\ m.ramp_morning_min > 0
                        THEN Some(Rat(m.ramp_morning_min * 60, q.queries_ramp_morning))
                        ELSE Some(Rat(10 * 60, 1)),
                    !.pv_interval_core =
                        IF q.queries_core > 0 /\ m.core_min > 0
                        THEN Some(Rat(m.core_min * 60, q.queries_core))
                        ELSE Some(Rat(2 * 60, 1))]

\* mutant: the fallback sunset is put 30 minutes after civil dusk
ReconcileWindow_sunset_after_dusk(p) ==
    LET skyMissing == ~IsSome(p.sky[1]) \/ ~IsSome(p.sky[2])
        met1Ok == IsSome(p.met1[1]) /\ IsSome(p.met1[2])
        met2Ok == IsSome(p.met2[1]) /\ IsSome(p.met2[2])
    IN  IF skyMissing /\ ~met1Ok
        THEN None
        ELSE LET civil_dawn == IF skyMissing THEN Val(p.met1[1]) - 30 ELSE Val(p.sky[1])
                 civil_dusk == IF skyMissing THEN Val(p.met1[2]) + 30 ELSE Val(p.sky[2])
                 sunrise_dt == IF met2Ok THEN Val(p.met2[1]) ELSE civil_dawn + 30
                 sunset_dt == IF met2Ok THEN Val(p.met2[2]) ELSE civil_dusk + 30
             IN  Some([civil_dawn |-> civil_dawn, sunrise_dt |-> sunrise_dt,
                       sunset_dt |-> sunset_dt, civil_dusk |-> civil_dusk])

\* mutant: of sunrise and sunset only the one api.met.no did not deliver is
\* replaced by the fallback
ReconcileWindow_keeps_delivered_half(p) ==
    LET skyMissing == ~IsSome(p.sky[1]) \/ ~IsSome(p.sky[2])
        met1Ok == IsSome(p.met1[1]) /\ IsSome(p.met1[2])
        met2Ok == IsSome(p.met2[1]) /\ IsSome(p.met2[2])
    IN  IF skyMissing /\ ~met1Ok
        THEN None
        ELSE LET civil_dawn == IF skyMissing THEN Val(p.met1[1]) - 30 ELSE Val(p.sky[1])
                 civil_dusk == IF skyMissing THEN Val(p.met1[2]) + 30 ELSE Val(p.sky[2])
                 sunrise_dt == IF IsSome(p.met2[1]) THEN Val(p.met2[1]) ELSE civil_dawn + 30
                 sunset_dt == IF IsSome(p.met2[2]) THEN Val(p.met2[2]) ELSE civil_dusk - 30
             IN  Some([civil_dawn |-> civil_dawn, sunrise_dt |-> sunrise_dt,
                       sunset_dt |-> sunset_dt, civil_dusk |-> civil_dusk])

\* the window part of schedule_pv_window: the providers' results p are
\* reconciled into the four boundaries, or into None when neither the
\* ephemeris nor api.met.no delivers ("Erneuter Versuch in 30 Minuten")
ReconcileWindow(p) ==
    LET skyMissing == ~IsSome(p.sky[1]) \/ ~IsSome(p.sky[2])
        met1Ok == IsSome(p.met1[1]) /\ IsSome(p.met1[2])
        met2Ok == IsSome(p.met2[1]) /\ IsSome(p.met2[2])
    IN  IF skyMissing /\ ~met1Ok
        THEN None
        ELSE LET civil_dawn == IF skyMissing THEN Val(p.met1[1]) - 30 ELSE Val(p.sky[1])
                 civil_dusk == IF skyMissing THEN Val(p.met1[2]) + 30 ELSE Val(p.sky[2])
                 sunrise_dt == IF met2Ok THEN Val(p.met2[1]) ELSE civil_dawn + 30
                 sunset_dt == IF met2Ok THEN Val(p.met2[2]) ELSE civil_dusk - 30
             IN  Some([civil_dawn |-> civil_dawn, sunrise_dt |-> sunrise_dt,
                       sunset_dt |-> sunset_dt, civil_dusk |-> civil_dusk])

\* the provider calls schedule_pv_window makes and what they returned:
\* api.met.no is asked a first time only when the twilight is missing, and a
\* second time only when the method has not returned (<<>>: not called)
ProviderLog(p) ==
    LET skyMissing == ~IsSome(p.sky[1]) \/ ~IsSome(p.sky[2])
    IN  <<p.sky,
          IF skyMissing THEN p.met1 ELSE <<>>,
          IF IsSome(ReconcileWindow(p)) THEN p.met2 ELSE <<>> >>

\* mutant: before civil dawn the queries start at once
schedule_pv_window_no_wait_for_dawn(s, p) ==
    LET today == Date(s.now)
        s0 == [s EXCEPT !.ev.prov = ProviderLog(p)]
        s1 == IF s0.pv_query_date # Some(today)
              THEN [s0 EXCEPT !.pv_queries_today = 0, !.pv_query_date = Some(today)]
              ELSE s0
        w == ReconcileWindow(p)
    IN  IF ~IsSome(w)
        THEN TagTimer(_schedule_pv_retry(s1, 30 * 60, FALSE),
                      "pv_window_timer", "schedule_pv_window")
        ELSE LET civil_dawn == Val(w).civil_dawn
                 civil_dusk == Val(w).civil_dusk
                 sunrise_dt == Val(w).sunrise_dt
                 sunset_dt == Val(w).sunset_dt
                 s2 == [s1 EXCEPT !.pv_civil_dawn = Some(civil_dawn),
                                  !.pv_sunrise = Some(sunrise_dt),
                                  !.pv_sunset = Some(sunset_dt),
                                  !.pv_civil_dusk = Some(civil_dusk)]
                 s3 == AllocateIntervals(s2, civil_dawn, sunrise_dt, sunset_dt, civil_dusk)
             IN  IF s3.now <= civil_dusk
                 THEN pv_query_step(s3, "schedule_pv_window")
                 ELSE _schedule_next_day(s3, p.skyT)

schedule_pv_window(s, p) ==
    LET today == Date(s.now)
        s0 == [s EXCEPT !.ev.prov = ProviderLog(p)]
        s1 == IF s0.pv_query_date # Some(today)
              THEN [s0 EXCEPT !.pv_queries_today = 0, !.pv_query_date = Some(today)]
              ELSE s0
        w == ReconcileWindow(p)
    IN  IF ~IsSome(w)
        THEN TagTimer(_schedule_pv_retry(s1, 30 * 60, FALSE),
                      "pv_window_timer", "schedule_pv_window")
        ELSE LET civil_dawn == Val(w).civil_dawn
                 civil_dusk == Val(w).civil_dusk
                 sunrise_dt == Val(w).sunrise_dt
                 sunset_dt == Val(w).sunset_dt
                 s2 == [s1 EXCEPT !.pv_civil_dawn = Some(civil_dawn),
                                  !.pv_sunrise = Some(sunrise_dt),
                                  !.pv_sunset = Some(sunset_dt),
                                  !.pv_civil_dusk = Some(civil_dusk)]
                 s3 == AllocateIntervals(s2, civil_dawn, sunrise_dt, sunset_dt, civil_dusk)
             IN  IF s3.now < civil_dawn
                 THEN TagTimer(_schedule_pv_retry(s3, Max((civil_dawn - s3.now) * 60, 1), TRUE),
                               "pv_window_timer", "schedule_pv_window")
                 ELSE IF civil_dawn <= s3.now /\ s3.now <= civil_dusk
                 THEN pv_query_step(s3, "schedule_pv_window")
                 ELSE _schedule_next_day(s3, p.skyT)

\* mutant: the dawn ramp starts after civil dawn, so the instant of civil dawn
\* belongs to no phase
_get_current_pv_interval_open_at_dawn(s) ==
    IF s.pv_queries_today >= s.pv_max_queries
    THEN [interval |-> Rat(0, 1), cont |-> FALSE]
    ELSE IF ~(IsSome(s.pv_civil_dawn) /\ IsSome(s.pv_sunrise)
              /\ IsSome(s.pv_sunset) /\ IsSome(s.pv_civil_dusk))
    THEN [interval |-> IF IsSome(s.pv_interval_core) /\ Val(s.pv_interval_core).num # 0
                       THEN Val(s.pv_interval_core) ELSE Rat(120, 1),
          cont |-> FALSE]
    ELSE IF ~IsSome(s.pv_interval_ramp) \/ ~IsSome(s.pv_interval_core)
    THEN [interval |-> Rat(120, 1), cont |-> FALSE]
    ELSE IF s.now < Val(s.pv_civil_dawn) \/ s.now > Val(s.pv_civil_dusk)
    THEN [interval |-> Rat(0, 1), cont |-> FALSE]
    ELSE IF Val(s.pv_civil_dawn) < s.now /\ s.now < Val(s.pv_sunrise)
    THEN [interval |-> Val(s.pv_interval_ramp), cont |-> TRUE]
    ELSE IF Val(s.pv_sunrise) <= s.now /\ s.now <= Val(s.pv_sunset)
    THEN [interval |-> Val(s.pv_interval_core), cont |-> TRUE]
    ELSE IF Val(s.pv_sunset) < s.now /\ s.now <= Val(s.pv_civil_dusk)
    THEN [interval |-> Val(s.pv_interval_ramp), cont |-> TRUE]
    ELSE [interval |-> Rat(0, 1), cont |-> FALSE]

\* mutant: the core phase ends before sunset, so the instant of sunset belongs
\* to no phase
_get_current_pv_interval_gap_at_sunset(s) ==
    IF s.pv_queries_today >= s.pv_max_queries
    THEN [interval |-> Rat(0, 1), cont |-> FALSE]
    ELSE IF ~(IsSome(s.pv_civil_dawn) /\ IsSome(s.pv_sunrise)
              /\ IsSome(s.pv_sunset) /\ IsSome(s.pv_civil_dusk))
    THEN [interval |-> IF IsSome(s.pv_interval_core) /\ Val(s.pv_interval_core).num # 0
                       THEN Val(s.pv_interval_core) ELSE Rat(120, 1),
          cont |-> FALSE]
    ELSE IF ~IsSome(s.pv_interval_ramp) \/ ~IsSome(s.pv_interval_core)
    THEN [interval |-> Rat(120, 1), cont |-> FALSE]
    ELSE IF s.now < Val(s.pv_civil_dawn) \/ s.now > Val(s.pv_civil_dusk)
    THEN [interval |-> Rat(0, 1), cont |-> FALSE]
    ELSE IF Val(s.pv_civil_dawn) <= s.now /\ s.now < Val(s.pv_sunrise)
    THEN [interval |-> Val(s.pv_interval_ramp), cont |-> TRUE]
    ELSE IF Val(s.pv_sunrise) <= s.now /\ s.now < Val(s.pv_sunset)
    THEN [interval |-> Val(s.pv_interval_core), cont |-> TRUE]
    ELSE IF Val(s.pv_sunset) < s.now /\ s.now <= Val(s.pv_civil_dusk)
    THEN [interval |-> Val(s.pv_interval_ramp), cont |-> TRUE]
    ELSE [interval |-> Rat(0, 1), cont |-> FALSE]

_get_current_pv_interval(s) ==
    IF s.pv_queries_today >= s.pv_max_queries
    THEN [interval |-> Rat(0, 1), cont |-> FALSE]
    ELSE IF ~(IsSome(s.pv_civil_dawn) /\ IsSome(s.pv_sunrise)
              /\ IsSome(s.pv_sunset) /\ IsSome(s.pv_civil_dusk))
    THEN [interval |-> IF IsSome(s.pv_interval_core) /\ Val(s.pv_interval_core).num # 0
                       THEN Val(s.pv_interval_core) ELSE Rat(120, 1),
          cont |-> FALSE]
    ELSE IF ~IsSome(s.pv_interval_ramp) \/ ~IsSome(s.pv_interval_core)
    THEN [interval |-> Rat(120, 1), cont |-> FALSE]
    ELSE IF s.now < Val(s.pv_civil_dawn) \/ s.now > Val(s.pv_civil_dusk)
    THEN [interval |-> Rat(0, 1), cont |-> FALSE]
    ELSE IF Val(s.pv_civil_dawn) <= s.now /\ s.now < Val(s.pv_sunrise)
    THEN [interval |-> Val(s.pv_interval_ramp), cont |-> TRUE]
    ELSE IF Val(s.pv_sunrise) <= s.now /\ s.now <= Val(s.pv_sunset)
    THEN [interval |-> Val(s.pv_interval_core), cont |-> TRUE]
    ELSE IF Val(s.pv_sunset) < s.now /\ s.now <= Val(s.pv_civil_dusk)
    THEN [interval |-> Val(s.pv_interval_ramp), cont |-> TRUE]
    ELSE [interval |-> Rat(0, 1), cont |-> FALSE]

-----------------------------------------------------------------------------
(* Applying a fetch result on the Tk main loop *)

IsPositive(power) == IsSome(power) /\ Val(power) > 0

\* mutant: the handover to the followup does not look at last_pv_power
SmartReschedule_ignores_power(s, skyT) ==
    LET r == _get_current_pv_interval(s)
    IN  IF r.cont /\ r.interval.num > 0
        THEN TagTimer(ArmTimer(CancelTimer(s, "pv_query_timer"), "pv_query_timer",
                               "pv_query_step", r.interval.num \div r.interval.den),
                      "pv_query_timer", "_finalize_pv_smart")
        ELSE IF s.pv_queries_today < s.pv_max_queries
        THEN pv_followup_step(s, "_finalize_pv_smart")
        ELSE _schedule_next_day(s, skyT)

\* mutant: the timer is always armed with the core interval
SmartReschedule_core_interval(s, skyT) ==
    LET r == _get_current_pv_interval(s)
        core == IF IsSome(s.pv_interval_core) THEN Val(s.pv_interval_core) ELSE r.interval
    IN  IF r.cont /\ r.interval.num > 0
        THEN TagTimer(ArmTimer(CancelTimer(s, "pv_query_timer"), "pv_query_timer",
                               "pv_query_step", core.num \div core.den),
                      "pv_query_timer", "_finalize_pv_smart")
        ELSE IF IsPositive(s.last_pv_power)
        THEN IF s.pv_queries_today < s.pv_max_queries
             THEN pv_followup_step(s, "_finalize_pv_smart")
             ELSE _schedule_next_day(s, skyT)
        ELSE _schedule_next_day(s, skyT)

\* _finalize_pv_smart after the counting: arm the phase-interval timer, or
\* at the end of the window hand over to the followup or to the next day
SmartReschedule(s, skyT) ==
    LET r == _get_current_pv_interval(s)
    IN  IF r.cont /\ r.interval.num > 0
        THEN TagTimer(ArmTimer(CancelTimer(s, "pv_query_timer"), "pv_query_timer",
                               "pv_query_step", r.interval.num \div r.interval.den),
                      "pv_query_timer", "_finalize_pv_smart")
        ELSE IF IsPositive(s.last_pv_power)
        THEN IF s.pv_queries_today < s.pv_max_queries
             THEN pv_followup_step(s, "_finalize_pv_smart")
             ELSE _schedule_next_day(s, skyT)
        ELSE _schedule_next_day(s, skyT)

\* mutant: the pause starts the count of failures afresh
SmartPause_resets_counter(s) ==
    TagTimer(_schedule_pv_retry([s EXCEPT !.pv_consecutive_failures = 0], 15 * 60, FALSE),
             "pv_window_timer", "_finalize_pv_smart")

\* the pause of _finalize_pv_smart: schedule_pv_window in 15 minutes
SmartPause(s) ==
    TagTimer(_schedule_pv_retry(s, 15 * 60, FALSE), "pv_window_timer", "_finalize_pv_smart")

\* mutant: the pause starts only after the sixth failure
_finalize_pv_smart_late_pause(s, result, skyT) ==
    LET s1 == [s EXCEPT !.pv_attempts_today = @ + 1]
        s2 == IF IsSome(result)
              THEN [update_pv_labels(s1, Val(result)) EXCEPT
                        !.pv_queries_today = @ + 1,
                        !.pv_consecutive_failures = 0]
              ELSE [s1 EXCEPT !.pv_consecutive_failures = @ + 1]
    IN  IF ~IsSome(result) /\ s2.pv_consecutive_failures > PauseThreshold
        THEN SmartPause(s2)
        ELSE SmartReschedule(s2, skyT)

\* mutant: the pause branch does not return and the phase timer is armed too
_finalize_pv_smart_pause_falls_through(s, result, skyT) ==
    LET s1 == [s EXCEPT !.pv_attempts_today = @ + 1]
        s2 == IF IsSome(result)
              THEN [update_pv_labels(s1, Val(result)) EXCEPT
                        !.pv_queries_today = @ + 1,
                        !.pv_consecutive_failures = 0]
              ELSE [s1 EXCEPT !.pv_consecutive_failures = @ + 1]
    IN  IF ~IsSome(result) /\ s2.pv_consecutive_failures >= PauseThreshold
        THEN SmartReschedule(SmartPause(s2), skyT)
        ELSE SmartReschedule(s2, skyT)

_finalize_pv_smart(s, result, skyT) ==
    LET s1 == [s EXCEPT !.pv_attempts_today = @ + 1]
        s2 == IF IsSome(result)
              THEN [update_pv_labels(s1, Val(result)) EXCEPT
                        !.pv_queries_today = @ + 1,
                        !.pv_consecutive_failures = 0]
              ELSE [s1 EXCEPT !.pv_consecutive_failures = @ + 1]
    IN  IF ~IsSome(result) /\ s2.pv_consecutive_failures >= PauseThreshold
        THEN SmartPause(s2)
        ELSE SmartReschedule(s2, skyT)

\* mutant: the followup goes on while power is positive, whatever the budget
FollowupReschedule_ignores_budget(s, skyT) ==
    IF IsPositive(s.last_pv_power)
    THEN TagTimer(ArmTimer(CancelTimer(s, "pv_followup_timer"), "pv_followup_timer",
                           "pv_followup_step", 10 * 60),
                  "pv_followup_timer", "_finalize_pv_followup")
    ELSE _schedule_next_day(s, skyT)

\* mutant: the followup chain ends when the date is no longer pv_query_date
FollowupReschedule_stops_at_midnight(s, skyT) ==
    IF s.pv_queries_today >= s.pv_max_queries \/ s.pv_query_date # Some(Date(s.now))
    THEN _schedule_next_day(s, skyT)
    ELSE IF IsPositive(s.last_pv_power)
    THEN TagTimer(ArmTimer(CancelTimer(s, "pv_followup_timer"), "pv_followup_timer",
                           "pv_followup_step", 10 * 60),
                  "pv_followup_timer", "_finalize_pv_followup")
    ELSE _schedule_next_day(s, skyT)

\* _finalize_pv_followup after the counting: budget check, then a further
\* followup in 10 minutes while the last power is positive
FollowupReschedule(s, skyT) ==
    IF s.pv_queries_today >= s.pv_max_queries
    THEN _schedule_next_day(s, skyT)
    ELSE IF IsPositive(s.last_pv_power)
    THEN TagTimer(ArmTimer(CancelTimer(s, "pv_followup_timer"), "pv_followup_timer",
                           "pv_followup_step", 10 * 60),
                  "pv_followup_timer", "_finalize_pv_followup")
    ELSE _schedule_next_day(s, skyT)

\* mutant: the pause forgets the last power
FollowupPause_forgets_power(s) ==
    TagTimer(ArmTimer(CancelTimer([s EXCEPT !.last_pv_power = None], "pv_followup_timer"),
                      "pv_followup_timer", "pv_followup_step", 15 * 60),
             "pv_followup_timer", "_finalize_pv_followup")

\* the pause of _finalize_pv_followup: the next followup in 15 minutes
FollowupPause(s) ==
    TagTimer(ArmTimer(CancelTimer(s, "pv_followup_timer"), "pv_followup_timer",
                      "pv_followup_step", 15 * 60),
             "pv_followup_timer", "_finalize_pv_followup")

\* mutant: a success does not reset the failure counter
_finalize_pv_followup_no_reset(s, result, skyT) ==
    LET s1 == [s EXCEPT !.pv_attempts_today = @ + 1]
        s2 == IF IsSome(result)
              THEN [update_pv_labels(s1, Val(result)) EXCEPT
                        !.pv_queries_today = @ + 1]
              ELSE [s1 EXCEPT !.pv_consecutive_failures = @ + 1]
    IN  IF ~IsSome(result) /\ s2.pv_consecutive_failures >= PauseThreshold
        THEN FollowupPause(s2)
        ELSE FollowupReschedule(s2, skyT)

_finalize_pv_followup(s, result, skyT) ==
    LET s1 == [s EXCEPT !.pv_attempts_today = @ + 1]
        s2 == IF IsSome(result)
              THEN [update_pv_labels(s1, Val(result)) EXCEPT
                        !.pv_queries_today = @ + 1,
                        !.pv_consecutive_failures = 0]
              ELSE [s1 EXCEPT !.pv_consecutive_failures = @ + 1]
    IN  IF ~IsSome(result) /\ s2.pv_consecutive_failures >= PauseThreshold
        THEN FollowupPause(s2)
        ELSE FollowupReschedule(s2, skyT)

\* mutant: the single update pauses like the chains do
_finalize_pv_single_pauses(s, result) ==
    LET s1 == [s EXCEPT !.pv_attempts_today = @ + 1]
    IN  IF IsSome(result)
        THEN [update_pv_labels(s1, Val(result)) EXCEPT
                  !.pv_queries_today = @ + 1,
                  !.pv_consecutive_failures = 0]
        ELSE LET s2 == [s1 EXCEPT !.pv_consecutive_failures = @ + 1]
             IN  IF s2.pv_consecutive_failures >= PauseThreshold
                 THEN SmartPause(s2)
                 ELSE s2

\* mutant: a failure clears the display through the sink
_finalize_pv_single_sink_on_failure(s, result) ==
    LET s1 == [s EXCEPT !.pv_attempts_today = @ + 1]
    IN  IF IsSome(result)
        THEN [update_pv_labels(s1, Val(result)) EXCEPT
                  !.pv_queries_today = @ + 1,
                  !.pv_consecutive_failures = 0]
        ELSE [update_pv_labels(s1, None) EXCEPT !.pv_consecutive_failures = @ + 1]

\* mutant: the attempt is counted only in the success branch
_finalize_pv_single_uncounted_failure(s, result) ==
    IF IsSome(result)
    THEN [update_pv_labels(s, Val(result)) EXCEPT
              !.pv_attempts_today = @ + 1,
              !.pv_queries_today = @ + 1,
              !.pv_consecutive_failures = 0]
    ELSE [s EXCEPT !.pv_consecutive_failures = @ + 1]

_finalize_pv_single(s, result) ==
    LET s1 == [s EXCEPT !.pv_attempts_today = @ + 1]
    IN  IF IsSome(result)
        THEN [update_pv_labels(s1, Val(result)) EXCEPT
                  !.pv_queries_today = @ + 1,
                  !.pv_consecutive_failures = 0]
        ELSE [s1 EXCEPT !.pv_consecutive_failures = @ + 1]

-----------------------------------------------------------------------------
(* Actions *)

Timers == {"pv_window_timer", "pv_query_timer", "pv_followup_timer"}

\* the timer may fire in the current slot
Due(s, timer) == IsSome(s[timer]) /\ Val(s[timer]).due < NextPoint(s.now)

\* the timer has to fire before the clock moves on
Overdue(s, timer) == IsSome(s[timer]) /\ Val(s[timer]).due <= s.now

Begin(op) == [St EXCEPT !.ev = EmptyLog(op)]

\* __init__: the PV fields as the constructor leaves them; the process may be
\* started at any instant of day 0
Constructed ==
    /\ pc = "init"
    /\ pv_window_timer = None /\ pv_query_timer = None /\ pv_followup_timer = None
    /\ pv_civil_dawn = None /\ pv_sunrise = None
    /\ pv_sunset = None /\ pv_civil_dusk = None
    /\ pv_queries_today = 0
    /\ pv_query_date = None
    /\ pv_interval_ramp = None /\ pv_interval_core = None
    /\ last_pv_power = None
    /\ pv_attempts_today = 0
    /\ pv_consecutive_failures = 0
    /\ pv_threads = <<>>
    /\ after0 = <<>>
    /\ ev = EmptyLog("init")
    /\ pause_seen = FALSE
    /\ NotLoaded
    /\ AppIdle

Init ==
    /\ Constructed
    /\ eph_file = "loadable"
    /\ now \in {p \in Points : Date(p) = 0}
    /\ pv_max_queries = MaxQueries

\* run(): load_cached_data restores the cached PV values through
\* update_pv_labels (cache = None: no cache entry), then the startup single
\* update is dispatched and schedule_pv_window is called
run(s, cache, e) ==
    LET s1 == IF IsSome(cache) THEN update_pv_labels(s, Val(cache)) ELSE s
        s2 == pv_single_update(s1)
    IN  [schedule_pv_window(s2, Delivered(Date(s.now), e)) EXCEPT !.pc = "mainloop"]

Run ==
    /\ pc = "init"
    /\ \E cache \in {None} \cup {Some(p) : p \in Powers}, e \in Env :
           Commit(run(Begin("run"), cache, e))

\* the clock moves to the next grid point; a fetch is in flight over at most
\* one such move, and callbacks queued with after(0) run before it
Tick ==
    /\ pc = "mainloop"
    /\ now < NextPoint(now) /\ NextPoint(now) < Horizon
    /\ \A t \in Timers : ~Overdue(St, t)
    /\ after0 = <<>>
    /\ \A i \in 1..Len(pv_threads) : ~pv_threads[i].late
    /\ Commit([Begin("tick") EXCEPT
                  !.now = NextPoint(now),
                  !.pv_threads = [i \in 1..Len(pv_threads) |->
                                      [pv_threads[i] EXCEPT !.late = TRUE]]])

\* a pending timer whose callback is cb fires
Fired(cb) ==
    {t \in Timers : Due(St, t) /\ Val(St[t]).cb = cb}

TimerPvQueryStep ==
    /\ pc = "mainloop"
    /\ \E t \in Fired("pv_query_step") :
           Commit(pv_query_step([Begin("pv_query_step") EXCEPT ![t] = None],
                                Val(St[t]).by))

TimerPvFollowupStep ==
    /\ pc = "mainloop"
    /\ \E t \in Fired("pv_followup_step") :
           Commit(pv_followup_step([Begin("pv_followup_step") EXCEPT ![t] = None],
                                   Val(St[t]).by))

TimerSchedulePvWindow ==
    /\ pc = "mainloop"
    /\ \E t \in Fired("schedule_pv_window"), e \in Env :
           Commit(schedule_pv_window([Begin("schedule_pv_window") EXCEPT ![t] = None],
                                     Delivered(Date(now), e)))

\* mutant: the worker counts the attempt itself, off the Tk main loop
_bg_fetch_pv_counts_attempt(s, i, result) ==
    [s EXCEPT !.pv_threads = SubSeq(@, 1, i - 1) \o SubSeq(@, i + 1, Len(@)),
              !.pv_attempts_today = @ + 1,
              !.after0 = Append(@, [mode |-> s.pv_threads[i].mode, result |-> result,
                                    via |-> s.pv_threads[i].via,
                                    day |-> s.pv_threads[i].day])]

\* _bg_fetch_pv: the worker's fetch ends and it queues the _finalize_*
\* callback of its mode with root.after(0, ...)
_bg_fetch_pv(s, i, result) ==
    [s EXCEPT !.pv_threads = SubSeq(@, 1, i - 1) \o SubSeq(@, i + 1, Len(@)),
              !.after0 = Append(@, [mode |-> s.pv_threads[i].mode, result |-> result,
                                    via |-> s.pv_threads[i].via,
                                    day |-> s.pv_threads[i].day])]

BgFetchPv ==
    /\ pc = "mainloop"
    /\ \E i \in 1..Len(pv_threads), result \in Results :
           Commit(_bg_fetch_pv(Begin("_bg_fetch_pv"), i, result))

\* the head of the after(0) queue runs
Pop(op) ==
    [Begin(op) EXCEPT !.after0 = Tail(@),
                      !.ev.mode = Head(after0).mode,
                      !.ev.ok = IsSome(Head(after0).result),
                      !.ev.via = Head(after0).via,
                      !.ev.day = Head(after0).day]

CanApply(mode) ==
    /\ pc = "mainloop"
    /\ after0 # <<>>
    /\ Head(after0).mode = mode
    /\ pv_attempts_today < MaxAttempts

FinalizePvSmart ==
    /\ CanApply("smart")
    /\ \E skyT \in BOOLEAN :
           Commit(_finalize_pv_smart(Pop("_finalize_pv_smart"), Head(after0).result, skyT))

FinalizePvFollowup ==
    /\ CanApply("followup")
    /\ \E skyT \in BOOLEAN :
           Commit(_finalize_pv_followup(Pop("_finalize_pv_followup"),
                                        Head(after0).result, skyT))

FinalizePvSingle ==
    /\ CanApply("single")
    /\ Commit(_finalize_pv_single(Pop("_finalize_pv_single"), Head(after0).result))

Next ==
    \/ Run
    \/ Tick
    \/ TimerPvQueryStep
    \/ TimerPvFollowupStep
    \/ TimerSchedulePvWindow
    \/ BgFetchPv
    \/ FinalizePvSmart
    \/ FinalizePvFollowup
    \/ FinalizePvSingle

Spec == Init /\ [][Next]_vars

-----------------------------------------------------------------------------
(* The program with its scheduling guarantees: a worker's request ends      *)
(* (requests.get has a timeout of 10 s) and the Tk main loop runs the        *)
(* callbacks queued with after(0).                                           *)

\* a budget small enough for the whole day's behaviour to be explored:
\* a success can be followed by a re-arm and by the exhausted budget
LiveBudget == 2

\* started at noon of the last day, inside that day's window
InitLive ==
    /\ Constructed
    /\ eph_file = "loadable"
    /\ now = MaxDay * DayMin + 720
    /\ pv_max_queries = LiveBudget

SpecLive ==
    /\ InitLive /\ [][Next]_vars
    /\ WF_vars(BgFetchPv)
    /\ WF_vars(FinalizePvSmart)
    /\ WF_vars(FinalizePvFollowup)
    /\ WF_vars(FinalizePvSingle)

-----------------------------------------------------------------------------
(* The same program when a fetch is short: the worker ends and its result  *)
(* is applied before the clock moves on and before any PV timer fires.     *)

NoFetchOutstanding == pv_threads = <<>> /\ after0 = <<>>

SerialTick == NoFetchOutstanding /\ Tick

SerialPvQueryStep == NoFetchOutstanding /\ TimerPvQueryStep

SerialPvFollowupStep == NoFetchOutstanding /\ TimerPvFollowupStep

SerialSchedulePvWindow == NoFetchOutstanding /\ TimerSchedulePvWindow

NextSerial ==
    \/ Run
    \/ SerialTick
    \/ SerialPvQueryStep
    \/ SerialPvFollowupStep
    \/ SerialSchedulePvWindow
    \/ BgFetchPv
    \/ FinalizePvSmart
    \/ FinalizePvFollowup
    \/ FinalizePvSingle

SpecSerial == Init /\ [][NextSerial]_vars

-----------------------------------------------------------------------------
(* The budget allocation of schedule_pv_window as a function of the window: *)
(* the four boundaries are drawn from AllocPoints, the budget is the        *)
(* program's 280, and the one action applies the allocation.                *)

\* minutes of the day from which the four boundaries are drawn
AllocPoints == {300, 360, 390, 720, 960, 1020, 1200, 1230, 1290}

InitAlloc ==
    /\ pc = "alloc"
    /\ eph_file = "loadable"
    /\ now = 0
    /\ pv_window_timer = None /\ pv_query_timer = None /\ pv_followup_timer = None
    /\ pv_civil_dawn \in {Some(t) : t \in AllocPoints}
    /\ pv_sunrise \in {Some(t) : t \in AllocPoints}
    /\ pv_sunset \in {Some(t) : t \in AllocPoints}
    /\ pv_civil_dusk \in {Some(t) : t \in AllocPoints}
    /\ pv_max_queries = DailyBudget
    /\ pv_queries_today = 0
    /\ pv_query_date = Some(0)
    /\ pv_interval_ramp = None /\ pv_interval_core = None
    /\ last_pv_power = None
    /\ pv_attempts_today = 0
    /\ pv_consecutive_failures = 0
    /\ pv_threads = <<>>
    /\ after0 = <<>>
    /\ ev = EmptyLog("init")
    /\ pause_seen = FALSE
    /\ NotLoaded
    /\ AppIdle

Allocate ==
    /\ pc = "alloc"
    /\ Commit([AllocateIntervals(Begin("allocate"), Val(pv_civil_dawn), Val(pv_sunrise),
                                 Val(pv_sunset), Val(pv_civil_dusk))
                  EXCEPT !.pc = "allocated"])

NextAlloc == Allocate

SpecAlloc == InitAlloc /\ [][NextAlloc]_vars

-----------------------------------------------------------------------------
(* The same allocation for every budget: the budget is drawn from Budgets   *)
(* and the boundaries from BudgetPoints, which hold a dusk ramp of ten      *)
(* minutes; equal and descending boundaries give the degenerate windows.    *)

BudgetPoints == {300, 360, 720, 1200, 1210, 1230}

\* no budget, the smallest ones, and the program's
Budgets == {0, 1, 2, 7, DailyBudget}

InitBudget ==
    /\ pc = "alloc"
    /\ eph_file = "loadable"
    /\ now = 0
    /\ pv_window_timer = None /\ pv_query_timer = None /\ pv_followup_timer = None
    /\ pv_civil_dawn \in {Some(t) : t \in BudgetPoints}
    /\ pv_sunrise \in {Some(t) : t \in BudgetPoints}
    /\ pv_sunset \in {Some(t) : t \in BudgetPoints}
    /\ pv_civil_dusk \in {Some(t) : t \in BudgetPoints}
    /\ pv_max_queries \in Budgets
    /\ pv_queries_today = 0
    /\ pv_query_date = Some(0)
    /\ pv_interval_ramp = None /\ pv_interval_core = None
    /\ last_pv_power = None
    /\ pv_attempts_today = 0
    /\ pv_consecutive_failures = 0
    /\ pv_threads = <<>>
    /\ after0 = <<>>
    /\ ev = EmptyLog("init")
    /\ pause_seen = FALSE
    /\ NotLoaded
    /\ AppIdle

SpecBudget == InitBudget /\ [][NextAlloc]_vars

-----------------------------------------------------------------------------
(* schedule_pv_window as a function of what the providers deliver: it is    *)
(* called once on a freshly constructed object, at an instant of day 0,     *)
(* with the program's budget of 280.                                        *)

\* days as the providers see them: the civil twilight pair (minutes of the
\* day) and the sunrise/sunset pair of api.met.no, None on a day without
\* sunrise.  An ordinary day, the same day with api.met.no one hour off, a day
\* on which the sun stays above -6 degrees for 40 minutes only, a day on which
\* it never gets there (both searches end at noon) and a day on which it never
\* sinks below (the searches end at 00:00 and 23:59).
Days ==
    { [twilight |-> <<360, 1230>>, sun |-> Some(<<395, 1190>>)],
      [twilight |-> <<360, 1230>>, sun |-> Some(<<335, 1130>>)],
      [twilight |-> <<700, 740>>, sun |-> None],
      [twilight |-> <<720, 720>>, sun |-> None],
      [twilight |-> <<0, 1439>>, sun |-> None] }

\* get_civil_twilight_skyfield() on such a day: the pair, or (None, None)
TwilightAnswers(day) ==
    { <<None, None>>, <<Some(day.twilight[1]), Some(day.twilight[2])>> }

\* fetch_sunrise_sunset_datetimes_local() on such a day: each of the two
\* times can be missing from the answer, and an exception gives (None, None)
SunAnswers(day) ==
    IF IsSome(day.sun)
    THEN { <<sr, ss>> : sr \in {None, Some(Val(day.sun)[1])},
                        ss \in {None, Some(Val(day.sun)[2])} }
    ELSE { <<None, None>> }

WindowInputs ==
    UNION { [sky : TwilightAnswers(day), met1 : SunAnswers(day),
             met2 : SunAnswers(day), skyT : BOOLEAN] : day \in Days }

\* instants of the call: before, on and between the boundaries, and after
WindowNows == {0, 360, 375, 395, 700, 720, 740, 1190, 1215, 1230, 1300}

InitWindow ==
    /\ Constructed
    /\ eph_file = "loadable"
    /\ now \in WindowNows
    /\ pv_max_queries = DailyBudget

ScheduleWindow ==
    /\ pc = "init"
    /\ \E p \in WindowInputs :
           Commit([schedule_pv_window(Begin("schedule_pv_window"), p)
                      EXCEPT !.pc = "scheduled"])

NextWindow == ScheduleWindow

SpecWindow == InitWindow /\ [][NextWindow]_vars

-----------------------------------------------------------------------------
(* The program started at civil dawn of day 0 with its budget of 280: the   *)
(* providers give civil dawn 06:00, sunrise 06:30, sunset 20:00 and civil   *)
(* dusk 20:30.                                                              *)

InitScenario ==
    /\ Constructed
    /\ eph_file = "loadable"
    /\ now = Val(get_civil_twilight_skyfield(0, TRUE)[1])
    /\ pv_max_queries = DailyBudget

SpecScenario == InitScenario /\ [][Next]_vars

-----------------------------------------------------------------------------
(* The ephemeris functions on their own: de421.bsp comes and goes, and      *)
(* init_skyfield and find_sun_crossing_time are called; the search goes     *)
(* through its loop one iteration at a time.                                *)

InitSky ==
    /\ Constructed
    /\ now = 0
    /\ pv_max_queries = DailyBudget
    /\ eph_file \in EphFiles

\* the file is copied, removed or damaged
EphemerisChanges ==
    /\ \E file \in EphFiles \ {eph_file} : eph_file' = file
    /\ sky_ev' = [op |-> "file", ret |-> None]
    /\ UNCHANGED <<SKYFIELD_AVAILABLE, search, sky_refused>>
    /\ UNCHANGED <<schedVars, appVars>>

\* a call of init_skyfield() by one of its users (run, schedule_sun_position)
InitSkyfield ==
    /\ LET r == init_skyfield(SKYFIELD_AVAILABLE, eph_file)
       IN  /\ SKYFIELD_AVAILABLE' = r.SKYFIELD_AVAILABLE
           /\ sky_ev' = [op |-> "init_skyfield", ret |-> Some(r.ret)]
           /\ sky_refused' = (sky_refused \/ ~r.ret)
    /\ UNCHANGED <<eph_file, search>>
    /\ UNCHANGED <<schedVars, appVars>>

\* find_sun_crossing_time is called for a rising or falling crossing; a
\* further call is made with the same bracket and the same sun
FindSunCrossingTime ==
    /\ search.pc \in {"idle", "done"}
    /\ search.calls < MaxCalls
    /\ \E rising \in BOOLEAN, crossing \in Crossings :
           /\ search.calls > 0 => (rising = search.rising /\ crossing = search.crossing)
           /\ LET r == init_skyfield(SKYFIELD_AVAILABLE, eph_file)
              IN  /\ SKYFIELD_AVAILABLE' = r.SKYFIELD_AVAILABLE
                  /\ search' = EnterSearch(search, r.ret, rising, crossing)
                  /\ sky_ev' = [op |-> "find_sun_crossing_time", ret |-> Some(r.ret)]
                  /\ sky_refused' = (sky_refused \/ ~r.ret)
    /\ UNCHANGED eph_file
    /\ UNCHANGED <<schedVars, appVars>>

BisectionStep ==
    /\ search.pc = "loop"
    /\ LoopRuns(search.i)
    /\ LET r == init_skyfield(SKYFIELD_AVAILABLE, eph_file)
       IN  /\ SKYFIELD_AVAILABLE' = r.SKYFIELD_AVAILABLE
           /\ search' = Bisect(search, SKYFIELD_AVAILABLE, eph_file)
           /\ sky_ev' = [op |-> "get_sun_elevation_skyfield", ret |-> Some(r.ret)]
           /\ sky_refused' = (sky_refused \/ ~r.ret)
    /\ UNCHANGED eph_file
    /\ UNCHANGED <<schedVars, appVars>>

BisectionReturn ==
    /\ search.pc = "loop"
    /\ ~LoopRuns(search.i)
    /\ search' = ReturnMidpoint(search)
    /\ sky_ev' = [op |-> "return", ret |-> None]
    /\ UNCHANGED <<SKYFIELD_AVAILABLE, eph_file, sky_refused>>
    /\ UNCHANGED <<schedVars, appVars>>

NextSky ==
    \/ EphemerisChanges
    \/ InitSkyfield
    \/ FindSunCrossingTime
    \/ BisectionStep
    \/ BisectionReturn

SpecSky == InitSky /\ [][NextSky]_vars

-----------------------------------------------------------------------------
(* The end of the program: SIGTERM or SIGINT calls _shutdown, Escape or the *)
(* right mouse button destroys the window, and run() calls _shutdown when   *)
(* the main loop has returned.                                              *)

\* the timers pending when _shutdown is called for the first time
PendingAtCall ==
    IF _is_shutting_down
    THEN {}
    ELSE {<<t, Val(St[t])>> : t \in {u \in Timers : IsSome(St[u])}}

\* mutant: no guard against a second call
_shutdown_without_guard(s, down) ==
    [s |-> CancelTimer(CancelTimer(CancelTimer(s, "pv_window_timer"),
                                   "pv_query_timer"), "pv_followup_timer"),
     saved |-> 1, quit |-> TRUE]

\* _shutdown: the state afterwards, the number of times the data were saved
\* and whether root.quit() was called
_shutdown(s, down) ==
    IF down
    THEN [s |-> s, saved |-> 0, quit |-> FALSE]
    ELSE [s |-> CancelTimer(CancelTimer(CancelTimer(s, "pv_window_timer"),
                                        "pv_query_timer"), "pv_followup_timer"),
          saved |-> 1, quit |-> TRUE]

\* where the Tk side is after a signal handler has run: root.quit() ends the
\* main loop; a quit called after the last statement of run() and before
\* root.mainloop() may or may not be seen by the main loop
AfterSignal(quit) ==
    IF quit /\ pc = "mainloop"
    THEN {"quit"} \cup (IF ev.op = "run" THEN {"mainloop"} ELSE {})
    ELSE {pc}

\* "signal.signal(signal.SIGTERM, lambda *args: self._shutdown())": the
\* handler runs between two callbacks of the main loop, or after the main
\* loop has returned
Signal ==
    /\ pc \in {"mainloop", "quit"}
    /\ LET r == _shutdown(Begin("_shutdown"), _is_shutting_down)
       IN  /\ \E after \in AfterSignal(r.quit) : CommitPv([r.s EXCEPT !.pc = after])
           /\ saved' = saved + r.saved
    /\ _is_shutting_down' = TRUE
    /\ shutdown_pending' = shutdown_pending \cup PendingAtCall
    /\ UNCHANGED <<skyVars, solar_noon, netatmoVars>>

\* "self.root.bind('<Escape>', lambda e: self.root.destroy())": the main
\* loop returns
Destroy ==
    /\ pc = "mainloop"
    /\ CommitPv([Begin("destroy") EXCEPT !.pc = "quit"])
    /\ UNCHANGED <<skyVars, appVars>>

\* "finally: self._shutdown()" of run()
Finally ==
    /\ pc = "quit"
    /\ LET r == _shutdown(Begin("_shutdown"), _is_shutting_down)
       IN  /\ CommitPv([r.s EXCEPT !.pc = "returned"])
           /\ saved' = saved + r.saved
    /\ _is_shutting_down' = TRUE
    /\ shutdown_pending' = shutdown_pending \cup PendingAtCall
    /\ UNCHANGED <<skyVars, solar_noon, netatmoVars>>

NextShutdown ==
    \/ Next
    \/ Signal
    \/ Destroy
    \/ Finally

SpecShutdown == InitLive /\ [][NextShutdown]_vars

-----------------------------------------------------------------------------
(* The Netatmo fetch: schedule_netatmo and _health_check start workers,     *)
(* _bg_fetch_netatmo runs in each of them, _apply_netatmo_data runs on the   *)
(* Tk main loop. A step of a worker is the code between two points where    *)
(* it waits: the lock, a request, the prompt of get_access_token, the sleep *)
(* and the finally.                                                         *)

\* "for attempt in range(3)"
NetatmoAttempts == 3

\* "if self._netatmo_retry_count <= 3"
HealthRetries == 3

\* _netatmo_retry_count is counted up to this value
MaxRetryCount == 4

\* what an attempt comes to: devices in the answer, an answer without
\* devices, an exception (no token, HTTP error, timeout), and
\* get_access_token asking for the authorization code with input()
Outcomes == {"data", "empty", "exception", "prompt"}

\* a frame whose thread is over and whose result, if any, has been applied
Free(f) == f.pc = "idle" \/ (f.pc = "exit" /\ (f.handed = 0 \/ f.applied))

\* update_netatmo_once: a new thread with target _bg_fetch_netatmo
update_netatmo_once(threads, i) == [threads EXCEPT ![i] = [NoWorker EXCEPT !.pc = "acquire"]]

\* "if not self._netatmo_fetch_lock.acquire(blocking=False): return"
Acquire(f, lock) ==
    IF lock
    THEN [f EXCEPT !.pc = "exit"]
    ELSE [f EXCEPT !.pc = "loop", !.held = TRUE]

\* the end of one pass of the loop body
NextAttempt(f) ==
    [f EXCEPT !.attempt = @ + 1,
              !.pc = IF f.attempt + 1 < NetatmoAttempts THEN "loop" ELSE "finally"]

\* the loop body after the request: hand over and return, try again, or
\* sleep before trying again
EndAttempt(f, outcome) ==
    IF outcome = "data"
    THEN [f EXCEPT !.handed = @ + 1, !.pc = "finally"]
    ELSE IF outcome = "empty"
    THEN NextAttempt(f)
    ELSE LET wait == IF 30 * (2 ^ f.attempt) <= 300 THEN 30 * (2 ^ f.attempt) ELSE 300
         IN  IF f.attempt < 2
             THEN [f EXCEPT !.wait = wait, !.pc = "sleep"]
             ELSE NextAttempt([f EXCEPT !.wait = wait])

\* one attempt: get_access_token() and fetch_netatmo_data(token)
Attempt(f, outcome) ==
    IF outcome = "prompt"
    THEN [f EXCEPT !.pc = "input", !.prompted = TRUE]
    ELSE EndAttempt([f EXCEPT !.fetches = @ + 1], outcome)

\* "finally: self._netatmo_fetch_lock.release()"
Release(f) == [f EXCEPT !.pc = "exit", !.held = FALSE]

InitNetatmo ==
    /\ Constructed
    /\ eph_file = "loadable"
    /\ now = 0
    /\ pv_max_queries = DailyBudget

NetatmoFrame == UNCHANGED <<schedVars, skyVars, solar_noon, _is_shutting_down, saved,
                            shutdown_pending>>

\* schedule_netatmo: run() and then the timer of 5 minutes
ScheduleNetatmo ==
    /\ \E i \in Workers :
           /\ Free(netatmo_threads[i])
           /\ netatmo_threads' = update_netatmo_once(netatmo_threads, i)
    /\ UNCHANGED <<_netatmo_fetch_lock, _last_netatmo_update, _netatmo_retry_count>>
    /\ NetatmoFrame

\* _health_check, every minute: the last update is more than 600 s old or
\* not
HealthCheck ==
    /\ _netatmo_retry_count < MaxRetryCount
    /\ \E stale \in BOOLEAN :
           IF IsSome(_last_netatmo_update) /\ stale
           THEN /\ _netatmo_retry_count' = _netatmo_retry_count + 1
                /\ IF _netatmo_retry_count + 1 <= HealthRetries
                   THEN \E i \in Workers :
                            /\ Free(netatmo_threads[i])
                            /\ netatmo_threads' = update_netatmo_once(netatmo_threads, i)
                   ELSE UNCHANGED netatmo_threads
           ELSE UNCHANGED <<_netatmo_retry_count, netatmo_threads>>
    /\ UNCHANGED <<_netatmo_fetch_lock, _last_netatmo_update>>
    /\ NetatmoFrame

WorkerAcquires(i) ==
    /\ netatmo_threads[i].pc = "acquire"
    /\ netatmo_threads' = [netatmo_threads EXCEPT ![i] = Acquire(@, _netatmo_fetch_lock)]
    /\ _netatmo_fetch_lock' = TRUE
    /\ UNCHANGED <<_last_netatmo_update, _netatmo_retry_count>>
    /\ NetatmoFrame

WorkerAttempts(i) ==
    /\ netatmo_threads[i].pc = "loop"
    /\ \E outcome \in Outcomes :
           netatmo_threads' = [netatmo_threads EXCEPT ![i] = Attempt(@, outcome)]
    /\ UNCHANGED <<_netatmo_fetch_lock, _last_netatmo_update, _netatmo_retry_count>>
    /\ NetatmoFrame

\* somebody types the authorization code: the token request and the data
\* request follow
InputReturns(i) ==
    /\ netatmo_threads[i].pc = "input"
    /\ \E outcome \in Outcomes \ {"prompt"} :
           netatmo_threads' = [netatmo_threads EXCEPT ![i] =
                                   Attempt([@ EXCEPT !.pc = "loop"], outcome)]
    /\ UNCHANGED <<_netatmo_fetch_lock, _last_netatmo_update, _netatmo_retry_count>>
    /\ NetatmoFrame

\* time_module.sleep(wait) is over
WorkerWakes(i) ==
    /\ netatmo_threads[i].pc = "sleep"
    /\ netatmo_threads' = [netatmo_threads EXCEPT ![i] = NextAttempt(@)]
    /\ UNCHANGED <<_netatmo_fetch_lock, _last_netatmo_update, _netatmo_retry_count>>
    /\ NetatmoFrame

WorkerReleases(i) ==
    /\ netatmo_threads[i].pc = "finally"
    /\ netatmo_threads' = [netatmo_threads EXCEPT ![i] = Release(@)]
    /\ _netatmo_fetch_lock' = FALSE
    /\ UNCHANGED <<_last_netatmo_update, _netatmo_retry_count>>
    /\ NetatmoFrame

\* _apply_netatmo_data(d), queued with root.after(0, ...)
ApplyNetatmoData(i) ==
    /\ netatmo_threads[i].handed > 0 /\ ~netatmo_threads[i].applied
    /\ netatmo_threads' = [netatmo_threads EXCEPT ![i].applied = TRUE]
    /\ _last_netatmo_update' = Some(TRUE)
    /\ _netatmo_retry_count' = 0
    /\ UNCHANGED _netatmo_fetch_lock
    /\ NetatmoFrame

\* the thread of worker i runs up to its next wait
WorkerRuns(i) ==
    \/ WorkerAcquires(i)
    \/ WorkerAttempts(i)
    \/ WorkerWakes(i)
    \/ WorkerReleases(i)

NextNetatmo ==
    \/ ScheduleNetatmo
    \/ HealthCheck
    \/ \E i \in Workers : WorkerRuns(i)
    \/ \E i \in Workers : InputReturns(i)
    \/ \E i \in Workers : ApplyNetatmoData(i)

\* a thread that can run does run: a request ends (timeout=20, timeout=15),
\* a sleep ends; nothing makes anybody answer the prompt
SpecNetatmo ==
    /\ InitNetatmo /\ [][NextNetatmo]_vars
    /\ \A i \in Workers : WF_vars(WorkerRuns(i))

-----------------------------------------------------------------------------
(* get_civil_twilight_skyfield: the search for the dawn between 00:00 and   *)
(* 12:00 and the search for the dusk between 12:00 and 23:59:59 of the      *)
(* date, in units from 00:00 local time; the sun of each half of the day    *)
(* is drawn when its search begins.                                         *)

\* "t_start", "t_noon" and "t_end" of the requested date
t_start == 0

t_noon == t_start + BracketUnits

t_end == t_noon + (BracketUnits - SecondUnits)

\* the crossings of Crossings, and a sun that stays on one side of the target
\* over the whole bracket: the crossing lies before its start or after its end
TwilightCrossings == Crossings \cup {0 - 1, BracketUnits + 1}

\* utc_datetime().astimezone(local_tz): the instant as a datetime, which has
\* whole units only; a half is rounded up
utc_datetime(t) == Val(t).num \div Val(t).den + (IF Val(t).num % Val(t).den = 0 THEN 0 ELSE 1)

dawn_dt(dawn_t) == t_start + utc_datetime(dawn_t)

\* mutant: the dusk is counted from 00:00, not from the start of its bracket
dusk_dt_from_midnight(dusk_t) == t_start + utc_datetime(dusk_t)

dusk_dt(dusk_t) == t_noon + utc_datetime(dusk_t)

\* find_sun_crossing_time(CIVIL_TWILIGHT_ANGLE, t_start, t_noon, rising=True)
DawnSearch(f, ok, crossing) ==
    [EnterSearch(f, ok, TRUE, crossing) EXCEPT !.end_t = t_noon - t_start]

\* find_sun_crossing_time(CIVIL_TWILIGHT_ANGLE, t_noon, t_end, rising=False),
\* the bracket counted from t_noon
DuskSearch(f, ok, crossing) ==
    [EnterSearch(f, ok, FALSE, crossing) EXCEPT !.end_t = t_end - t_noon]

\* get_civil_twilight_skyfield is called: (None, None) without ephemeris,
\* else the search for the dawn begins
GetCivilTwilightSkyfield ==
    /\ search = NoSearch
    /\ sky_ev.op = "import"
    /\ LET r == init_skyfield(SKYFIELD_AVAILABLE, eph_file)
       IN  /\ SKYFIELD_AVAILABLE' = r.SKYFIELD_AVAILABLE
           /\ sky_refused' = (sky_refused \/ ~r.ret)
           /\ IF r.ret
              THEN /\ \E crossing \in TwilightCrossings :
                          search' = DawnSearch(search, TRUE, crossing)
                   /\ sky_ev' = [op |-> "find_sun_crossing_time", ret |-> None]
              ELSE /\ search' = search
                   /\ sky_ev' = [op |-> "get_civil_twilight_skyfield",
                                 ret |-> Some(<<None, None>>)]
    /\ UNCHANGED eph_file
    /\ UNCHANGED <<schedVars, appVars>>

\* the dawn is found: the search for the dusk begins
TwilightDusk ==
    /\ search.pc = "done" /\ search.calls = 1
    /\ \E crossing \in TwilightCrossings :
           search' = DuskSearch(search, TRUE, crossing)
    /\ sky_ev' = [op |-> "find_sun_crossing_time", ret |-> None]
    /\ UNCHANGED <<SKYFIELD_AVAILABLE, eph_file, sky_refused>>
    /\ UNCHANGED <<schedVars, appVars>>

\* "return dawn_dt, dusk_dt"
TwilightReturn ==
    /\ search.pc = "done" /\ search.calls = 2
    /\ sky_ev.op # "get_civil_twilight_skyfield"
    /\ sky_ev' = [op |-> "get_civil_twilight_skyfield",
                  ret |-> Some(<<Some(dawn_dt(search.prev)), Some(dusk_dt(search.ret))>>)]
    /\ UNCHANGED <<SKYFIELD_AVAILABLE, eph_file, search, sky_refused>>
    /\ UNCHANGED <<schedVars, appVars>>

NextTwilight ==
    \/ GetCivilTwilightSkyfield
    \/ BisectionStep
    \/ BisectionReturn
    \/ TwilightDusk
    \/ TwilightReturn

SpecTwilight == InitSky /\ [][NextTwilight]_vars

-----------------------------------------------------------------------------
(* _calculate_solar_noon: the sun of today culminates at some minute of the *)
(* day with some elevation in degrees; the loop over the samples goes one   *)
(* sample at a time.                                                        *)

\* "for hour in range(11, 15)"
NoonFirstHour == 11

NoonEndHour == 15

\* "for minute in range(0, 60, 5)"
NoonStep == 5

\* "return max(max_elev, 10), solar_noon_str"
ElevationFloor == 10

\* "return 45, '--:--'"
FallbackElevation == 45

\* the culmination of the sun, in minutes of the day: before the samples,
\* on the first, between two, on one in the middle, on the last, after the
\* last, at 15:00 and later
Culminations == {600, 660, 747, 780, 895, 897, 900, 960}

\* the elevation at the culmination, in degrees
Heights == {0 - 3, 0, 4, 10, 25, 60}

\* the elevation falls by one degree for every five minutes from the
\* culmination
DayElevation(t, culmination, height) ==
    height - (IF t < culmination THEN culmination - t ELSE t - culmination) \div 5

\* get_sun_elevation_skyfield(TS.from_datetime(dt)) for dt = hour:minute of
\* today
SampleElevation(available, file, f, hour, minute) ==
    IF ~init_skyfield(available, file).ret
    THEN 0
    ELSE DayElevation(hour * 60 + minute, f.culmination, f.height)

\* _calculate_solar_noon up to the loop; (45, "--:--") without ephemeris
EnterNoon(ok, culmination, height) ==
    IF ok
    THEN [pc |-> "loop", culmination |-> culmination, height |-> height,
          hour |-> NoonFirstHour, minute |-> 0,
          max_elev |-> 0, noon_hour |-> 12, noon_minute |-> 0, ret |-> None]
    ELSE [NoNoon EXCEPT !.pc = "done", !.ret = Some(<<FallbackElevation, None>>)]

\* the next (hour, minute) of the two nested loops
NextSample(f) ==
    IF f.minute + NoonStep < 60
    THEN [f EXCEPT !.minute = @ + NoonStep]
    ELSE [f EXCEPT !.hour = @ + 1, !.minute = 0]

\* mutant: a later sample as high as the maximum replaces it
SampleNoon_keeps_last(f, available, file) ==
    LET elev == SampleElevation(available, file, f, f.hour, f.minute)
    IN  IF elev >= f.max_elev
        THEN NextSample([f EXCEPT !.max_elev = elev,
                                  !.noon_hour = f.hour, !.noon_minute = f.minute])
        ELSE NextSample(f)

\* the body of the loop for the sample (hour, minute)
SampleNoon(f, available, file) ==
    LET elev == SampleElevation(available, file, f, f.hour, f.minute)
    IN  IF elev > f.max_elev
        THEN NextSample([f EXCEPT !.max_elev = elev,
                                  !.noon_hour = f.hour, !.noon_minute = f.minute])
        ELSE NextSample(f)

\* "return max(max_elev, 10), solar_noon_str": the string "hh:mm" is
\* Some(<<hh, mm>>) and the string "--:--" is None
ReturnNoon(f) ==
    [f EXCEPT !.pc = "done",
              !.ret = Some(<<Max(f.max_elev, ElevationFloor),
                             Some(<<f.noon_hour, f.noon_minute>>)>>)]

\* _bg_fetch_astronomy calls _calculate_solar_noon
CalculateSolarNoon ==
    /\ solar_noon.pc = "idle"
    /\ LET r == init_skyfield(SKYFIELD_AVAILABLE, eph_file)
       IN  /\ SKYFIELD_AVAILABLE' = r.SKYFIELD_AVAILABLE
           /\ sky_refused' = (sky_refused \/ ~r.ret)
           /\ \E culmination \in Culminations, height \in Heights :
                  solar_noon' = EnterNoon(r.ret, culmination, height)
    /\ sky_ev' = [op |-> "_calculate_solar_noon", ret |-> None]
    /\ UNCHANGED <<eph_file, search>>
    /\ UNCHANGED <<schedVars, _is_shutting_down, saved, shutdown_pending, netatmoVars>>

SolarNoonSample ==
    /\ solar_noon.pc = "loop"
    /\ solar_noon.hour < NoonEndHour
    /\ solar_noon' = SampleNoon(solar_noon, SKYFIELD_AVAILABLE, eph_file)
    /\ sky_ev' = [op |-> "get_sun_elevation_skyfield", ret |-> None]
    /\ UNCHANGED <<SKYFIELD_AVAILABLE, eph_file, search, sky_refused>>
    /\ UNCHANGED <<schedVars, _is_shutting_down, saved, shutdown_pending, netatmoVars>>

SolarNoonReturn ==
    /\ solar_noon.pc = "loop"
    /\ solar_noon.hour = NoonEndHour
    /\ solar_noon' = ReturnNoon(solar_noon)
    /\ sky_ev' = [op |-> "return", ret |-> None]
    /\ UNCHANGED <<SKYFIELD_AVAILABLE, eph_file, search, sky_refused>>
    /\ UNCHANGED <<schedVars, _is_shutting_down, saved, shutdown_pending, netatmoVars>>

NextNoon ==
    \/ CalculateSolarNoon
    \/ SolarNoonSample
    \/ SolarNoonReturn

SpecNoon == InitSky /\ [][NextNoon]_vars

-----------------------------------------------------------------------------
(* Vocabulary of the properties *)

FinalizeOps == {"_finalize_pv_smart", "_finalize_pv_followup", "_finalize_pv_single"}

ChainOps == {"_finalize_pv_smart", "_finalize_pv_followup"}

\* the step applies the fetch result at the head of the after(0) queue
ApplyStep == after0 # <<>> /\ after0' = Tail(after0)

AppliedOk == IsSome(Head(after0).result)

PendingTimers == {t \in Timers : IsSome(St[t])}

\* fetches of the polling chain (smart, followup) started and not yet applied
ChainFetches ==
    Cardinality({i \in 1..Len(pv_threads) : pv_threads[i].mode # "single"})
    + Cardinality({i \in 1..Len(after0) : after0[i].mode # "single"})

\* now lies in the civil-twilight window of its own date
InTodaysWindow ==
    LET w == get_civil_twilight_skyfield(Date(now), TRUE)
    IN  Val(w[1]) <= now /\ now <= Val(w[2])

\* whole polls that fit into a phase: floor(duration / interval)
Polls(from, to, interval) ==
    IF to > from THEN ((to - from) * 60 * interval.den) \div interval.num ELSE 0

\* the interval _get_current_pv_interval hands out at instant t of the stored
\* window while budget is left
IntervalAt(t) ==
    _get_current_pv_interval([St EXCEPT !.now = t, !.pv_queries_today = 0]).interval

ImpliedQueries ==
    Polls(Val(pv_civil_dawn), Val(pv_sunrise), IntervalAt(Val(pv_civil_dawn)))
    + Polls(Val(pv_sunrise), Val(pv_sunset), IntervalAt(Val(pv_sunrise)))
    + Polls(Val(pv_sunset), Val(pv_civil_dusk), IntervalAt(Val(pv_civil_dusk)))

OrderedWindow ==
    /\ Val(pv_civil_dawn) <= Val(pv_sunrise)
    /\ Val(pv_sunrise) <= Val(pv_sunset)
    /\ Val(pv_sunset) <= Val(pv_civil_dusk)

-----------------------------------------------------------------------------
(* Properties *)

\* C1: the per-day count never exceeds the budget: pv_queries_today <=
\* pv_max_queries in every reachable state.  Refuted: the timer armed by
\* _schedule_next_day starts pv_query_step on the next day without the reset
\* of schedule_pv_window, so the count of an exhausted day grows further.
C1_BudgetNeverExceeded == pv_queries_today <= pv_max_queries

\* C2: a smart fetch started by the firing of the next-day timer and applied
\* inside the new day's [civil dawn, civil dusk] with budget left (and no
\* pause due) finds the window recomputed for the new date and re-arms the
\* phase-interval timer.  Refuted: the fetch is judged against the window of
\* the day before.
C2_NextDayRecomputesAndPolls ==
    ( /\ ev.op = "_finalize_pv_smart"
      /\ ev.via = "_schedule_next_day"
      /\ InTodaysWindow
      /\ pv_queries_today < pv_max_queries
      /\ (ev.ok \/ pv_consecutive_failures < PauseThreshold) )
    => /\ IsSome(pv_civil_dawn) /\ Date(Val(pv_civil_dawn)) = Date(now)
       /\ \E i \in 1..Len(ev.armed) : /\ ev.armed[i].timer = "pv_query_timer"
                                      /\ ev.armed[i].cb = "pv_query_step"

\* C3: no fetch result is counted into pv_queries_today while pv_query_date is
\* not the current local date.  Refuted by the fetches of the day after
\* NEXT_DAY, which run without schedule_pv_window.
C3_CountedOnQueryDate ==
    (ev.op \in FinalizeOps /\ ev.ok) => pv_query_date = Some(Date(now))

\* C4: at most one PV fetch (worker running or result waiting to be applied)
\* is outstanding at any time.  Refuted at startup: run() dispatches the single
\* update and, inside the window, schedule_pv_window dispatches a smart fetch.
C4_OneFetchInFlight == Len(pv_threads) + Len(after0) <= 1

C6_SuccessResetsFailures ==
    [][ApplyStep =>
         /\ AppliedOk => pv_consecutive_failures' = 0
         /\ (~AppliedOk /\ pv_consecutive_failures = 0) =>
                (pv_consecutive_failures' = 1 /\ ~PauseArmed(ev'))]_vars

C6_Witness ==
    /\ pause_seen
    /\ ev.op \in ChainOps /\ ~ev.ok
    /\ pv_consecutive_failures = 1
    /\ ~PauseArmed(ev)

\* C7: for every stored window with civil dawn <= sunrise <= sunset <= civil
\* dusk the two intervals are strictly positive and the polls they imply over
\* the three phases (floor(duration / interval used in the phase), summed)
\* are at most pv_max_queries.  Refuted: the dusk ramp is polled with the
\* interval of the dawn ramp, which is the 10-minute default when the dawn
\* ramp is empty.
C7_AllocationWithinBudget ==
    (pc = "allocated" /\ OrderedWindow) =>
        /\ Val(pv_interval_ramp).num > 0 /\ Val(pv_interval_ramp).den > 0
        /\ Val(pv_interval_core).num > 0 /\ Val(pv_interval_core).den > 0
        /\ ImpliedQueries <= pv_max_queries

\* C8: each application of a successful fetch calls update_pv_labels exactly
\* once, a failed one never, and a failed application leaves last_pv_power
\* unchanged.
C8_SinkOncePerSuccess ==
    [][ApplyStep =>
         /\ AppliedOk => ev'.sink = 1
         /\ ~AppliedOk => (ev'.sink = 0 /\ last_pv_power' = last_pv_power)]_vars

C8_Witness ==
    /\ ev.op \in FinalizeOps /\ ~ev.ok
    /\ ev.sink = 0
    /\ IsPositive(last_pv_power)
    /\ pv_queries_today > 0

\* C9: every application adds 1 to pv_attempts_today; a successful one adds 1
\* to pv_queries_today and a failed one leaves it; pv_attempts_today >=
\* pv_queries_today always.
C9_AttemptsAndQueries ==
    /\ [][ApplyStep =>
            /\ pv_attempts_today' = pv_attempts_today + 1
            /\ AppliedOk => pv_queries_today' = pv_queries_today + 1
            /\ ~AppliedOk => pv_queries_today' = pv_queries_today]_vars
    /\ [](pv_attempts_today >= pv_queries_today)

C9_Witness ==
    /\ ev.op = "_finalize_pv_single" /\ ~ev.ok
    /\ pv_attempts_today > pv_queries_today
    /\ pv_queries_today > 0

\* C10: at most one PV timer is pending at any time, and a pending timer
\* excludes a smart or followup fetch that is still outstanding: there is one
\* polling chain.
C10_OneTimerPending ==
    Cardinality(PendingTimers) + ChainFetches <= 1

C10_Witness ==
    /\ ev.op = "_finalize_pv_followup"
    /\ Len(ev.armed) = 1
    /\ PendingTimers = {"pv_followup_timer"}
    /\ pause_seen

-----------------------------------------------------------------------------
(* The window of schedule_pv_window *)

\* the steps in which schedule_pv_window runs
WindowOps == {"run", "schedule_pv_window"}

\* the twilight computation delivered no pair
SkyMissing(prov) == ~IsSome(prov[1][1]) \/ ~IsSome(prov[1][2])

\* a call of api.met.no was made and delivered both sunrise and sunset
MetDelivered(answer) == Len(answer) = 2 /\ IsSome(answer[1]) /\ IsSome(answer[2])

\* all four boundaries are stored
WindowStored ==
    /\ IsSome(pv_civil_dawn) /\ IsSome(pv_sunrise)
    /\ IsSome(pv_sunset) /\ IsSome(pv_civil_dusk)

\* the step armed a timer that calls schedule_pv_window again
RetryArmed(log) ==
    \E i \in 1..Len(log.armed) : log.armed[i].cb = "schedule_pv_window"

\* C11: when schedule_pv_window gets times neither from the twilight
\* computation nor from api.met.no, it stores a window of fixed fallback
\* bounds and goes on scheduling on it, without a timer that waits for a
\* provider.  Refuted: the method stores nothing and arms a 30-minute retry of
\* itself.
C11_FallbackWindowWithoutProviders ==
    (ev.op \in WindowOps /\ SkyMissing(ev.prov) /\ ~MetDelivered(ev.prov[2]))
    => (WindowStored /\ ~RetryArmed(ev))

\* the phase tests of _get_current_pv_interval that hold at the instant now
\* for the stored window, by the names of the five classes
PhaseTests ==
    LET t == now
    IN  {ph \in {"before", "dawn_ramp", "core", "dusk_ramp", "after"} :
            \/ ph = "before" /\ t < Val(pv_civil_dawn)
            \/ ph = "dawn_ramp" /\ Val(pv_civil_dawn) <= t /\ t < Val(pv_sunrise)
                                 /\ t <= Val(pv_civil_dusk)
            \/ ph = "core" /\ Val(pv_sunrise) <= t /\ t <= Val(pv_sunset)
                            /\ Val(pv_civil_dawn) <= t /\ t <= Val(pv_civil_dusk)
            \/ ph = "dusk_ramp" /\ Val(pv_sunset) < t /\ t <= Val(pv_civil_dusk)
                                 /\ Val(pv_civil_dawn) <= t
            \/ ph = "after" /\ t > Val(pv_civil_dusk)}

\* C12: for every window schedule_pv_window stores and every instant of the
\* call, the classification is total: at least one phase test holds (exactly
\* one when the boundaries are ordered; with sunset before sunrise an instant
\* between them passes both ramp tests, which give the same interval); before
\* the window the start is deferred by a timer and no interval is handed out,
\* inside [civil dawn, civil dusk] a smart fetch is dispatched and
\* _get_current_pv_interval returns the ramp or the core interval, positive,
\* with continue = True, after the window the next day is scheduled.
C12_ClassificationTotal ==
    (pc = "scheduled" /\ WindowStored) =>
        LET r == _get_current_pv_interval(St)
        IN  /\ PhaseTests # {}
            /\ OrderedWindow => Cardinality(PhaseTests) = 1
            /\ PhaseTests \subseteq {"dawn_ramp", "dusk_ramp"} \/ Cardinality(PhaseTests) = 1
            /\ "before" \in PhaseTests =>
                   /\ ~r.cont /\ ev.started = <<>>
                   /\ Len(ev.armed) = 1 /\ ev.armed[1].cb = "pv_query_step"
                   /\ Val(pv_window_timer).by = "schedule_pv_window"
            /\ "after" \in PhaseTests =>
                   /\ ~r.cont /\ ev.started = <<>>
                   /\ Len(ev.armed) = 1
                   /\ Val(pv_window_timer).by = "_schedule_next_day"
            /\ "dawn_ramp" \in PhaseTests =>
                   r = [interval |-> Val(pv_interval_ramp), cont |-> TRUE]
            /\ "core" \in PhaseTests =>
                   r = [interval |-> Val(pv_interval_core), cont |-> TRUE]
            /\ "dusk_ramp" \in PhaseTests =>
                   r = [interval |-> Val(pv_interval_ramp), cont |-> TRUE]
            /\ (Val(pv_civil_dawn) <= now /\ now <= Val(pv_civil_dusk)) =>
                   /\ r.cont /\ r.interval.num > 0
                   /\ ev.started = <<"smart">> /\ ev.armed = <<>>

\* the instant of sunset, in the core phase, of a window with sunset before
\* civil dusk
C12_Witness ==
    /\ pc = "scheduled" /\ WindowStored
    /\ now = Val(pv_sunset) /\ now < Val(pv_civil_dusk)
    /\ PhaseTests = {"core"}
    /\ _get_current_pv_interval(St).cont

-----------------------------------------------------------------------------
(* The start at civil dawn *)

\* the stored window is 06:00 / 06:30 / 20:00 / 20:30 of day 0
ScenarioWindow ==
    /\ pv_civil_dawn = Some(360) /\ pv_sunrise = Some(390)
    /\ pv_sunset = Some(1200) /\ pv_civil_dusk = Some(1230)

\* C13: with the window 06:00 / 06:30 / 20:00 / 20:30, budget 280 and the
\* clock at 06:00, run() finds now inside the window: schedule_pv_window
\* dispatches a smart fetch and arms no timer; the application of that fetch
\* at 06:00 (no pause being due) arms exactly one timer, pv_query_timer for
\* pv_query_step, whose delay is the dawn-ramp interval 30*60/2 = 900 s > 0.
C13_StartAtCivilDawn ==
    /\ (ev.op = "run" /\ ScenarioWindow /\ now = 360) =>
           /\ ev.started = <<"single", "smart">>
           /\ ev.armed = <<>>
           /\ pv_interval_ramp = Some(Rat(30 * 60, 2))
    /\ ( /\ ev.op = "_finalize_pv_smart" /\ ev.via = "schedule_pv_window"
         /\ ScenarioWindow /\ now = 360
         /\ (ev.ok \/ pv_consecutive_failures < PauseThreshold) ) =>
           /\ Len(ev.armed) = 1
           /\ ev.armed[1].timer = "pv_query_timer"
           /\ ev.armed[1].cb = "pv_query_step"
           /\ ev.armed[1].delay = 900
           /\ ev.armed[1].delay * Val(pv_interval_ramp).den = Val(pv_interval_ramp).num
           /\ ev.started = <<>>

C13_Witness ==
    /\ ev.op = "_finalize_pv_smart" /\ ev.via = "schedule_pv_window"
    /\ ScenarioWindow /\ now = 360
    /\ pv_attempts_today = 1
    /\ pv_query_timer # None /\ Val(pv_query_timer).delay = 900

-----------------------------------------------------------------------------
(* The allocation for phases of 60, 600 and 60 minutes *)

\* the phase durations of the stored window
StoredMinutes ==
    PhaseMinutes(Val(pv_civil_dawn), Val(pv_sunrise), Val(pv_sunset), Val(pv_civil_dusk))

\* C14: for budget 280 and a window whose phases last 60, 600 and 60 minutes
\* the allocation has the weighted total 3120, gives the core 269 queries and
\* each ramp 5, together at most 280, and stores the core interval
\* 600*60/269 s, which lies within one second of 134 s.
C14_AllocationExample ==
    ( /\ pc = "allocated" /\ pv_max_queries = 280
      /\ StoredMinutes = [ramp_morning_min |-> 60, core_min |-> 600,
                          ramp_evening_min |-> 60] ) =>
        LET q == PhaseQueries(pv_max_queries, StoredMinutes)
        IN  /\ weighted_total(StoredMinutes) = 3120
            /\ q.queries_core = 269
            /\ q.queries_ramp_morning = 5
            /\ q.queries_ramp_evening = 5
            /\ q.queries_ramp_morning + q.queries_core + q.queries_ramp_evening <= 280
            /\ pv_interval_core = Some(Rat(600 * 60, 269))
            /\ pv_interval_ramp = Some(Rat(60 * 60, 5))
            /\ 133 * 269 < Val(pv_interval_core).num
            /\ Val(pv_interval_core).num < 134 * 269

C14_Witness ==
    /\ pc = "allocated"
    /\ pv_civil_dawn = Some(300) /\ pv_sunrise = Some(360)
    /\ pv_sunset = Some(960) /\ pv_civil_dusk = Some(1020)
    /\ pv_interval_core = Some(Rat(36000, 269))

-----------------------------------------------------------------------------
(* The reconciliation of the two providers *)

\* C15: in the window schedule_pv_window stores, civil dawn and dusk are the
\* computed twilight when it is available and sunrise - 30 min and
\* sunset + 30 min of api.met.no's first answer when it is not; sunrise and
\* sunset are api.met.no's second answer when it delivers both, and
\* civil dawn + 30 min and civil dusk - 30 min when it misses either.
C15_FallbackReconciliation ==
    (pc = "scheduled" /\ WindowStored) =>
        /\ ~SkyMissing(ev.prov) =>
               /\ pv_civil_dawn = ev.prov[1][1]
               /\ pv_civil_dusk = ev.prov[1][2]
        /\ SkyMissing(ev.prov) =>
               /\ MetDelivered(ev.prov[2])
               /\ Val(pv_civil_dawn) = Val(ev.prov[2][1]) - 30
               /\ Val(pv_civil_dusk) = Val(ev.prov[2][2]) + 30
        /\ MetDelivered(ev.prov[3]) =>
               /\ pv_sunrise = ev.prov[3][1]
               /\ pv_sunset = ev.prov[3][2]
        /\ ~MetDelivered(ev.prov[3]) =>
               /\ Val(pv_sunrise) = Val(pv_civil_dawn) + 30
               /\ Val(pv_sunset) = Val(pv_civil_dusk) - 30

\* the twilight is computed and api.met.no delivers a sunrise without a sunset
C15_Witness ==
    /\ pc = "scheduled" /\ WindowStored
    /\ ~SkyMissing(ev.prov)
    /\ IsSome(ev.prov[3][1]) /\ ~IsSome(ev.prov[3][2])
    /\ pv_sunrise # ev.prov[3][1]
    /\ Val(pv_sunset) = Val(pv_civil_dusk) - 30

-----------------------------------------------------------------------------
(* The order of the stored boundaries *)

\* the times the providers delivered to this run are ordered among
\* themselves: dawn <= sunrise <= sunset <= dusk for those that are used, and
\* the two answers of api.met.no are the same when both are used
DeliveredOrdered(prov) ==
    /\ ~SkyMissing(prov) => Val(prov[1][1]) <= Val(prov[1][2])
    /\ MetDelivered(prov[2]) => Val(prov[2][1]) <= Val(prov[2][2])
    /\ MetDelivered(prov[3]) => Val(prov[3][1]) <= Val(prov[3][2])
    /\ (~SkyMissing(prov) /\ MetDelivered(prov[3])) =>
           /\ Val(prov[1][1]) <= Val(prov[3][1])
           /\ Val(prov[3][2]) <= Val(prov[1][2])
    /\ (MetDelivered(prov[2]) /\ MetDelivered(prov[3])) => prov[2] = prov[3]

\* C16 as stated: every window schedule_pv_window stores has
\* civil_dawn <= sunrise <= sunset <= civil_dusk.  Refuted by a computed
\* twilight shorter than 60 minutes whose sunrise and sunset are the
\* fallback, and by an api.met.no answer that lies outside the computed
\* twilight.
C16_StoredWindowOrdered ==
    (pc = "scheduled" /\ WindowStored) => OrderedWindow

\* C16, amended: every window schedule_pv_window stores has
\* civil_dawn <= sunrise <= sunset <= civil_dusk, provided the times the
\* providers delivered are ordered among themselves and, when sunrise and
\* sunset are the 30-minute fallback, civil dusk is at least 60 minutes after
\* civil dawn.
C16_StoredWindowOrderedWhenRoom ==
    ( /\ pc = "scheduled" /\ WindowStored
      /\ DeliveredOrdered(ev.prov)
      /\ ~MetDelivered(ev.prov[3]) =>
             Val(pv_civil_dusk) - Val(pv_civil_dawn) >= 60 )
    => OrderedWindow

\* the fallback sunrise and sunset inside a computed twilight
C16_Witness ==
    /\ pc = "scheduled" /\ WindowStored
    /\ ~SkyMissing(ev.prov) /\ ~MetDelivered(ev.prov[3])
    /\ Val(pv_civil_dusk) - Val(pv_civil_dawn) >= 60
    /\ OrderedWindow
    /\ Val(pv_sunrise) < Val(pv_sunset)

-----------------------------------------------------------------------------
(* The worker thread *)

\* a worker ends in the step: only _bg_fetch_pv takes a thread away
WorkerEnds == Len(pv_threads') < Len(pv_threads)

\* the _finalize_* callback _bg_fetch_pv selects for a mode
FinalizeOf(mode) ==
    CASE mode = "smart" -> "_finalize_pv_smart"
      [] mode = "followup" -> "_finalize_pv_followup"
      [] mode = "single" -> "_finalize_pv_single"

\* C17: the step in which a worker ends changes none of the counters, the
\* last power, the window, the intervals, the budget and the timers; it ends
\* one worker and queues one result for it (the tuple or None) under the
\* worker's mode; and every queued result is applied by the _finalize_*
\* callback of its mode, so the scheduler state changes on the main loop only.
C17_WorkerMutatesNothing ==
    [][ /\ WorkerEnds =>
             /\ UNCHANGED <<pv_queries_today, pv_attempts_today,
                            pv_consecutive_failures, last_pv_power, pv_query_date,
                            pv_max_queries, pv_civil_dawn, pv_sunrise, pv_sunset,
                            pv_civil_dusk, pv_interval_ramp, pv_interval_core,
                            pv_window_timer, pv_query_timer, pv_followup_timer>>
             /\ Len(pv_threads') = Len(pv_threads) - 1
             /\ Len(after0') = Len(after0) + 1
             /\ SubSeq(after0', 1, Len(after0)) = after0
             /\ after0'[Len(after0')].result \in Results
             /\ \E i \in 1..Len(pv_threads) :
                    /\ after0'[Len(after0')].mode = pv_threads[i].mode
                    /\ pv_threads' = SubSeq(pv_threads, 1, i - 1)
                                      \o SubSeq(pv_threads, i + 1, Len(pv_threads))
        /\ ApplyStep => ev'.op = FinalizeOf(Head(after0).mode)
        /\ ~WorkerEnds => Len(after0') <= Len(after0) ]_vars

\* a worker of the polling chain has ended with an exception while the
\* counters are no longer zero
C17_Witness ==
    /\ ev.op = "_bg_fetch_pv"
    /\ after0 # <<>> /\ after0[Len(after0)].mode \in {"smart", "followup"}
    /\ after0[Len(after0)].result = None
    /\ pv_attempts_today > 0 /\ pv_consecutive_failures > 0

-----------------------------------------------------------------------------
(* The ephemeris *)

\* the step called init_skyfield()
InitCalled(log) == IsSome(log.ret)

\* C18: every call of init_skyfield() made while SKYFIELD_AVAILABLE is not
\* True looks at the file again: it returns True and sets SKYFIELD_AVAILABLE to
\* True when the file is loadable, also after earlier calls returned False,
\* and returns False otherwise; once SKYFIELD_AVAILABLE is True every call
\* returns True and it stays True, whatever happens to the file.
C18_AvailabilityRechecked ==
    [][ /\ InitCalled(sky_ev') =>
             /\ (SKYFIELD_AVAILABLE = Some(TRUE) \/ eph_file = "loadable") =>
                    /\ sky_ev'.ret = Some(TRUE)
                    /\ SKYFIELD_AVAILABLE' = Some(TRUE)
             /\ (SKYFIELD_AVAILABLE # Some(TRUE) /\ eph_file # "loadable") =>
                    /\ sky_ev'.ret = Some(FALSE)
                    /\ SKYFIELD_AVAILABLE' = Some(FALSE)
        /\ SKYFIELD_AVAILABLE = Some(TRUE) => SKYFIELD_AVAILABLE' = Some(TRUE) ]_vars

\* a call has returned True after an earlier call returned False
C18_Witness ==
    /\ sky_refused
    /\ sky_ev = [op |-> "init_skyfield", ret |-> Some(TRUE)]
    /\ SKYFIELD_AVAILABLE = Some(TRUE)

\* the instant t lies before the crossing of the search
NotYetCrossed(t) ==
    IF search.rising
    THEN SunElevation(t, search.rising, search.crossing) < CIVIL_TWILIGHT_ANGLE
    ELSE SunElevation(t, search.rising, search.crossing) > CIVIL_TWILIGHT_ANGLE

\* the bracket of the call encloses the crossing: its start lies before the
\* crossing, its end does not
BracketEncloses == NotYetCrossed(0) /\ ~NotYetCrossed(BracketUnits)

\* 2^n for the iteration counts of the search
Halvings(n) == 2^n

\* C19: the loop of find_sun_crossing_time runs 30 times; when the bracket of
\* the call encloses the crossing, after every iteration (rising or falling)
\* the start still lies before the crossing and the end does not, and the
\* bracket is half as long as before; the value returned is the midpoint of
\* the bracket after the 30th iteration; and without ephemeris the call
\* returns None at once.
C19_BisectionInvariant ==
    /\ search.i <= 30
    /\ (search.pc \in {"loop", "done"} /\ BracketEncloses /\ (search.pc = "loop" \/ IsSome(search.ret))) =>
           /\ NotYetCrossed(search.start_t)
           /\ ~NotYetCrossed(search.end_t)
           /\ (search.end_t - search.start_t) * Halvings(search.i) = BracketUnits
    /\ (search.pc = "done" /\ IsSome(search.ret)) =>
           /\ search.i = 30
           /\ Val(search.ret) = Rat(search.start_t + search.end_t, 2)
    /\ (sky_ev.op = "find_sun_crossing_time" /\ sky_ev.ret = Some(FALSE)) =>
           /\ search.pc = "done" /\ search.ret = None /\ search.i = 0
    /\ (search.pc = "done" /\ search.ret = None) => sky_refused

\* a falling search has returned
C19_Witness ==
    /\ search.pc = "done" /\ IsSome(search.ret)
    /\ ~search.rising /\ BracketEncloses
    /\ search.i = 30
    /\ search.end_t - search.start_t = 1

\* twice the distance of the returned instant from the crossing, in units
TwiceError ==
    LET d == (search.start_t - search.crossing) + (search.end_t - search.crossing)
    IN  IF d < 0 THEN 0 - d ELSE d

-----------------------------------------------------------------------------
(* The day after *)

\* the step ran _schedule_next_day, which found tomorrow's civil dawn and
\* armed the timer for it
NextDayArmed ==
    /\ IsSome(pv_window_timer)
    /\ Val(pv_window_timer).by = "_schedule_next_day"
    /\ Val(pv_window_timer).cb = "pv_query_step"
    /\ \E i \in 1..Len(ev.armed) : ev.armed[i].timer = "pv_window_timer"

\* the earliest civil dawn after the instant t
EarliestDawnAfter(t) ==
    LET today == Val(get_civil_twilight_skyfield(Date(t), TRUE)[1])
    IN  IF t < today THEN today
        ELSE Val(get_civil_twilight_skyfield(Date(t) + 1, TRUE)[1])

\* C21: the timer _schedule_next_day arms is due at the earliest civil dawn
\* after the current instant.  Refuted when the method runs after midnight and
\* before that day's dawn: it targets the dawn of the date after, and the
\* window of the day that has just begun is skipped.
C21_NextDayTargetsEarliestDawn ==
    NextDayArmed => Val(pv_window_timer).due = EarliestDawnAfter(now)

-----------------------------------------------------------------------------
(* The followup chain *)

\* the step applies the result of a followup fetch
FollowupApplied == ApplyStep /\ Head(after0).mode = "followup"

\* the log shows exactly one timer armed: timer, callback, delay in seconds
ArmedOnly(log, timer, cb, delay) ==
    log.armed = <<[timer |-> timer, cb |-> cb, delay |-> delay]>>

\* the step ended in _schedule_next_day
WentToNextDay(log, timer) ==
    /\ Len(log.armed) = 1 /\ log.armed[1].timer = "pv_window_timer"
    /\ IsSome(timer) /\ Val(timer).by = "_schedule_next_day"

\* C22: the application of a followup result reads neither the window nor
\* the date: it leaves window, intervals and pv_query_date as they are, never
\* lowers pv_queries_today, starts no fetch and arms no pv_query_timer; after
\* a fifth or later failure in a row it arms the next followup in 15 minutes,
\* otherwise it goes to the next day when pv_queries_today has reached
\* pv_max_queries or last_pv_power is not positive, and else arms the next
\* followup in 10 minutes, whatever the clock and the date are; and a
\* followup timer that fires dispatches a followup fetch.
C22_FollowupIgnoresWindowAndDate ==
    [][ /\ FollowupApplied =>
             /\ UNCHANGED <<pv_civil_dawn, pv_sunrise, pv_sunset, pv_civil_dusk,
                            pv_interval_ramp, pv_interval_core, pv_query_date>>
             /\ pv_queries_today' >= pv_queries_today
             /\ ev'.started = <<>>
             /\ IF ~AppliedOk /\ pv_consecutive_failures' >= PauseThreshold
                THEN ArmedOnly(ev', "pv_followup_timer", "pv_followup_step", 15 * 60)
                ELSE IF pv_queries_today' < pv_max_queries /\ IsPositive(last_pv_power')
                THEN ArmedOnly(ev', "pv_followup_timer", "pv_followup_step", 10 * 60)
                ELSE WentToNextDay(ev', pv_window_timer')
        /\ ev'.op = "pv_followup_step" => ev'.started = <<"followup">> ]_vars

\* a followup result is applied inside the window of the day after the one
\* the chain started on, the counter of the day before still standing
C22_Witness ==
    /\ ev.op = "_finalize_pv_followup"
    /\ pv_query_date = Some(0) /\ Date(now) = 1 /\ InTodaysWindow
    /\ pv_queries_today > 0
    /\ ArmedOnly(ev, "pv_followup_timer", "pv_followup_step", 10 * 60)

-----------------------------------------------------------------------------
(* One computation of the window per day *)

\* the stored window is that of the date of the instant t
WindowOfDay(dawn, t) == IsSome(dawn) /\ Date(Val(dawn)) = Date(t)

\* the step ran schedule_pv_window up to the storing of window and intervals
Recomputed(log) ==
    log.op \in WindowOps /\ Len(log.prov) = 3 /\ log.prov[3] # <<>>

\* schedule_pv_window does not compute window and intervals when the stored
\* window is already that of the current date
NotComputedTwice ==
    [][Recomputed(ev') => ~WindowOfDay(pv_civil_dawn, now')]_vars

\* a smart fetch is dispatched only while the stored window is that of the
\* current date
NotComputedZeroTimes ==
    \A i \in 1..Len(ev.started) :
        ev.started[i] = "smart" => WindowOfDay(pv_civil_dawn, now)

\* C23: window and intervals are computed once per calendar day, not a second
\* time on the same day and not zero times on a day with smart fetches.
\* Refuted both ways: after a 15-minute pause (and after a 12-hour retry that
\* ends on the same day) schedule_pv_window computes them again, and the timer
\* of _schedule_next_day starts pv_query_step on the new day without any
\* computation.
C23_RecomputedOncePerDay == NotComputedTwice /\ []NotComputedZeroTimes

-----------------------------------------------------------------------------
(* The interval of each phase *)

\* equality of two fractions
SameRat(a, b) == a.num * b.den = b.num * a.den

\* the interval handed out at instant t is minutes * 60 / queries
OwnInterval(t, minutes, queries) ==
    (minutes > 0 /\ queries > 0) => SameRat(IntervalAt(t), Rat(minutes * 60, queries))

\* C24: in an ordered window with three phases that all last some time, the
\* interval handed out in each phase is that phase's duration times 60 over
\* that phase's query count: at civil dawn
\* that of the dawn ramp, at sunrise that of the core, at civil dusk that of
\* the dusk ramp.  Refuted for the dusk ramp: there is one ramp interval,
\* computed from the dawn ramp, and it is used in the dusk ramp too.
C24_IntervalOfOwnPhase ==
    ( /\ pc = "allocated" /\ OrderedWindow
      /\ StoredMinutes.ramp_morning_min > 0 /\ StoredMinutes.core_min > 0
      /\ StoredMinutes.ramp_evening_min > 0 ) =>
        LET m == StoredMinutes
            q == PhaseQueries(pv_max_queries, m)
        IN  /\ OwnInterval(Val(pv_civil_dawn), m.ramp_morning_min, q.queries_ramp_morning)
            /\ OwnInterval(Val(pv_sunrise), m.core_min, q.queries_core)
            /\ OwnInterval(Val(pv_civil_dusk), m.ramp_evening_min, q.queries_ramp_evening)

-----------------------------------------------------------------------------
(* The loop does not stall *)

\* fetches whose result has not been applied
Outstanding == Len(pv_threads) + Len(after0)

\* a PV timer is pending, a worker is running or a result waits
Alive == PendingTimers # {} \/ Outstanding > 0

-----------------------------------------------------------------------------
(* The followup chain *)

Started(log, mode) == \E i \in 1..Len(log.started) : log.started[i] = mode

\* C26: a followup fetch is dispatched only by the firing of a timer whose
\* callback is pv_followup_step (the 10-minute timer or the 15-minute pause
\* timer), so never in the step that applies a fetch result.  Refuted:
\* _finalize_pv_smart calls pv_followup_step() itself when it hands over
\* after civil dusk, and the first followup fetch starts in that step.
C26_FollowupFetchOnlyFromTimer ==
    Started(ev, "followup") => ev.op = "pv_followup_step"

-----------------------------------------------------------------------------
(* The 15-minute pause *)

\* the step is the firing of the pause timer armed by _finalize_pv_smart
SmartPauseFires ==
    /\ IsSome(pv_window_timer)
    /\ Val(pv_window_timer).by = "_finalize_pv_smart"
    /\ ev'.op = "schedule_pv_window"

\* the step is the firing of the pause timer armed by _finalize_pv_followup
FollowupPauseFires ==
    /\ IsSome(pv_followup_timer)
    /\ Val(pv_followup_timer).by = "_finalize_pv_followup"
    /\ Val(pv_followup_timer).delay = 15 * 60
    /\ ev'.op = "pv_followup_step"

\* C27: the firing of a pause timer dispatches a fetch of the state the pause
\* was entered from: a smart fetch after a pause of _finalize_pv_smart (the
\* providers delivering a window), a followup fetch after a pause of
\* _finalize_pv_followup.  Refuted: the smart pause arms schedule_pv_window,
\* which dispatches nothing when it runs at or after civil dusk and goes to
\* the next day.
C27_PauseResumesItsState ==
    [][ /\ (SmartPauseFires /\ Recomputed(ev')) => Started(ev', "smart")
        /\ FollowupPauseFires => Started(ev', "followup") ]_vars

-----------------------------------------------------------------------------
(* The end of the window *)

SmartApplied == ApplyStep /\ Head(after0).mode = "smart"

\* the applied failure is the fifth or a later one in a row: the step pauses
PauseDue == ~AppliedOk /\ pv_consecutive_failures' >= PauseThreshold

AfterStoredDusk == IsSome(pv_civil_dusk) /\ now > Val(pv_civil_dusk)

InStoredWindow ==
    /\ IsSome(pv_civil_dawn) /\ IsSome(pv_civil_dusk)
    /\ Val(pv_civil_dawn) <= now /\ now <= Val(pv_civil_dusk)

\* C28: a smart step that does not pause and finds now after the stored civil
\* dusk dispatches a followup fetch exactly when last_pv_power > 0 and
\* pv_queries_today < pv_max_queries, and goes to the next day otherwise; a
\* smart step inside the stored window never dispatches a followup fetch, and
\* goes to the next day when the budget is used up.
C28_HandoverOnlyAfterDusk ==
    [][ (SmartApplied /\ ~PauseDue) =>
           /\ AfterStoredDusk =>
                 IF IsPositive(last_pv_power') /\ pv_queries_today' < pv_max_queries
                 THEN ev'.started = <<"followup">> /\ ev'.armed = <<>>
                 ELSE ev'.started = <<>> /\ WentToNextDay(ev', pv_window_timer')
           /\ InStoredWindow =>
                 /\ ~Started(ev', "followup")
                 /\ pv_queries_today' >= pv_max_queries =>
                        WentToNextDay(ev', pv_window_timer') ]_vars

\* after dusk with power and budget: handed over to the followup
C28_Witness ==
    /\ ev.op = "_finalize_pv_smart"
    /\ AfterStoredDusk
    /\ IsPositive(last_pv_power) /\ pv_queries_today < pv_max_queries
    /\ ev.started = <<"followup">>

-----------------------------------------------------------------------------
(* The phase interval *)

\* whole seconds of a stored interval, as int(interval_s * 1000) ms arms it
Seconds(interval) == Val(interval).num \div Val(interval).den

\* the stored interval of the phase of the stored window that contains t
PhaseInterval(t) ==
    IF Val(pv_sunrise) <= t /\ t <= Val(pv_sunset)
    THEN Seconds(pv_interval_core)
    ELSE Seconds(pv_interval_ramp)

\* C29: a smart step that does not pause, leaves budget and finds now inside
\* the stored window arms exactly one timer: pv_query_timer, calling
\* pv_query_step after the stored interval of the phase that contains now
\* (core from sunrise to sunset, ramp from civil dawn to sunrise and from
\* sunset to civil dusk).
C29_PhaseIntervalArmed ==
    [][ ( /\ SmartApplied /\ ~PauseDue
          /\ pv_queries_today' < pv_max_queries
          /\ InStoredWindow ) =>
            /\ ArmedOnly(ev', "pv_query_timer", "pv_query_step", PhaseInterval(now))
            /\ IsSome(pv_query_timer')
            /\ Val(pv_query_timer').due = now + PhaseInterval(now) \div 60
            /\ ev'.started = <<>> ]_vars

\* the chain has gone from the core phase into the evening ramp: the timer
\* armed by the previous smart step led to a fetch applied after sunset
C29_Witness ==
    /\ ev.op = "_finalize_pv_smart" /\ ev.via = "_finalize_pv_smart"
    /\ InStoredWindow /\ now > Val(pv_sunset)
    /\ Seconds(pv_interval_ramp) # Seconds(pv_interval_core)
    /\ ArmedOnly(ev, "pv_query_timer", "pv_query_step", Seconds(pv_interval_ramp))

-----------------------------------------------------------------------------
(* Sustained failure *)

ChainApplied == ApplyStep /\ Head(after0).mode # "single"

\* the timer the pause of the applied mode arms
PauseTimer == IF Head(after0).mode = "smart" THEN "pv_window_timer" ELSE "pv_followup_timer"

PauseCallback ==
    IF Head(after0).mode = "smart" THEN "schedule_pv_window" ELSE "pv_followup_step"

\* C30: only a success resets pv_consecutive_failures: every failed
\* application adds one and no other step changes it, the firing of a pause
\* timer included; a failed application of the smart or followup chain that
\* is the fifth or a later one in a row arms the 15-minute timer of its mode
\* and nothing else, dispatches nothing, and leaves that timer as the only
\* pending one with no chain fetch outstanding, so the next chain fetch
\* waits for its expiry.
C30_PauseKeepsCounting ==
    [][ /\ (ApplyStep /\ ~AppliedOk) =>
               pv_consecutive_failures' = pv_consecutive_failures + 1
        /\ ~ApplyStep => pv_consecutive_failures' = pv_consecutive_failures
        /\ (ChainApplied /\ PauseDue) =>
               /\ ArmedOnly(ev', PauseTimer, PauseCallback, 15 * 60)
               /\ ev'.started = <<>>
               /\ PendingTimers' = {PauseTimer}
               /\ ChainFetches' = 0 ]_vars

\* the sixth failure in a row, applied after the pause of the fifth: paused again
C30_Witness ==
    /\ ev.op \in ChainOps /\ ~ev.ok
    /\ pv_consecutive_failures > PauseThreshold
    /\ PauseArmed(ev)
    /\ ev.started = <<>>

-----------------------------------------------------------------------------
(* The followup decision *)

\* C31: a followup step that does not pause goes to the next day, with no
\* followup timer armed or pending, when the budget is used up or
\* last_pv_power is None or not positive; otherwise it arms the one 10-minute
\* timer of pv_followup_step and nothing else.  A failed fetch leaves
\* last_pv_power as it was.
C31_FollowupDecision ==
    [][ (FollowupApplied /\ ~PauseDue) =>
           /\ ~AppliedOk => last_pv_power' = last_pv_power
           /\ IF pv_queries_today' >= pv_max_queries \/ ~IsPositive(last_pv_power')
              THEN /\ WentToNextDay(ev', pv_window_timer')
                   /\ pv_followup_timer' = None
              ELSE /\ ArmedOnly(ev', "pv_followup_timer", "pv_followup_step", 10 * 60)
                   /\ IsSome(pv_followup_timer')
                   /\ Val(pv_followup_timer').due = now + 10 ]_vars

\* a failed followup fetch, the power of the fetch before still positive:
\* the followup goes on
C31_Witness ==
    /\ ev.op = "_finalize_pv_followup" /\ ~ev.ok
    /\ pv_consecutive_failures < PauseThreshold
    /\ IsPositive(last_pv_power) /\ pv_queries_today < pv_max_queries
    /\ ArmedOnly(ev, "pv_followup_timer", "pv_followup_step", 10 * 60)

-----------------------------------------------------------------------------
(* Waiting for the window *)

\* civil dawn of the date of instant t
DawnOfDate(t) == Val(get_civil_twilight_skyfield(Date(t), TRUE)[1])

\* C32: a run of schedule_pv_window that stores a window and finds now before
\* its civil dawn dispatches no smart or followup fetch and arms exactly one
\* timer, pv_window_timer, calling pv_query_step at the dawn instant (delay
\* civil_dawn - now, at least 1 second); and no smart fetch is dispatched
\* before the civil dawn of the current date, which is the dawn of the stored
\* window when that window is of the current date.
C32_NoFetchBeforeDawn ==
    /\ ( /\ ev.op \in WindowOps /\ Recomputed(ev)
          /\ now < Val(pv_civil_dawn) ) =>
            /\ ~Started(ev, "smart") /\ ~Started(ev, "followup")
            /\ ArmedOnly(ev, "pv_window_timer", "pv_query_step",
                         Max((Val(pv_civil_dawn) - now) * 60, 1))
            /\ Val(pv_window_timer).due = Val(pv_civil_dawn)
            /\ PendingTimers = {"pv_window_timer"}
    /\ Started(ev, "smart") =>
            /\ now >= DawnOfDate(now)
            /\ WindowOfDay(pv_civil_dawn, now) => now >= Val(pv_civil_dawn)

\* the timer armed before dawn has fired at dawn and dispatched the first
\* smart fetch of the day
C32_Witness ==
    /\ ev.op = "pv_query_step" /\ Started(ev, "smart")
    /\ pv_threads[Len(pv_threads)].via = "schedule_pv_window"
    /\ WindowOfDay(pv_civil_dawn, now) /\ now = Val(pv_civil_dawn)

-----------------------------------------------------------------------------
(* The frame of the pause *)

\* C33: a failed application of the smart or followup chain that pauses
\* leaves pv_queries_today, pv_query_date, last_pv_power, the four window
\* boundaries and the two phase intervals as they were, does not call the
\* sink, and of the timers changes only the one it arms; it adds 1 to
\* pv_attempts_today and to pv_consecutive_failures.
C33_PauseFrame ==
    [][ (ChainApplied /\ PauseDue) =>
           /\ UNCHANGED <<pv_queries_today, pv_query_date, last_pv_power,
                          pv_civil_dawn, pv_sunrise, pv_sunset, pv_civil_dusk,
                          pv_interval_ramp, pv_interval_core>>
           /\ ev'.sink = 0
           /\ pv_attempts_today' = pv_attempts_today + 1
           /\ pv_consecutive_failures' = pv_consecutive_failures + 1
           /\ \A timer \in Timers \ {PauseTimer} : St[timer]' = St[timer] ]_vars

\* a followup pause that keeps a positive power and the count of the day
C33_Witness ==
    /\ ev.op = "_finalize_pv_followup" /\ ~ev.ok /\ PauseArmed(ev)
    /\ IsPositive(last_pv_power) /\ pv_queries_today > 0
    /\ WindowStored

-----------------------------------------------------------------------------
(* Degenerate allocations *)

RampDefault == Rat(10 * 60, 1)

CoreDefault == Rat(2 * 60, 1)

\* the interval is a quotient with a divisor other than 0 and is above 0
StrictlyPositive(interval) ==
    IsSome(interval) /\ Val(interval).den > 0 /\ Val(interval).num > 0

\* C34: after an allocation both stored intervals are strictly positive and no
\* quotient has divisor 0; with a weighted total of 0 they are the defaults
\* 600 s and 120 s; a dawn ramp or a core without duration or without queries
\* has its default, and so has a dusk ramp that has a duration but no
\* queries.  Refuted in its last part: the dusk ramp is polled with the
\* interval of the dawn ramp, whatever its own count.
C34_DegenerateAllocation ==
    pc = "allocated" =>
        LET m == StoredMinutes
            W == weighted_total(m)
        IN  /\ StrictlyPositive(pv_interval_ramp) /\ StrictlyPositive(pv_interval_core)
            /\ W <= 0 => /\ pv_interval_ramp = Some(RampDefault)
                         /\ pv_interval_core = Some(CoreDefault)
            /\ W > 0 =>
                 LET q == PhaseQueries(pv_max_queries, m)
                 IN  /\ (m.ramp_morning_min = 0 \/ q.queries_ramp_morning = 0) =>
                            pv_interval_ramp = Some(RampDefault)
                     /\ (m.core_min = 0 \/ q.queries_core = 0) =>
                            pv_interval_core = Some(CoreDefault)
                     /\ ( /\ OrderedWindow /\ pv_max_queries > 0
                           /\ m.ramp_evening_min > 0 /\ q.queries_ramp_evening = 0 ) =>
                            SameRat(IntervalAt(Val(pv_civil_dusk)), RampDefault)

-----------------------------------------------------------------------------
(* The startup single update *)

SingleApplied == ApplyStep /\ Head(after0).mode = "single"

\* C35: the application of the startup single update adds 1 to
\* pv_attempts_today, on success adds 1 to pv_queries_today and sets
\* pv_consecutive_failures to 0, on failure adds 1 to pv_consecutive_failures
\* and leaves the count; it arms and cancels no timer, leaves the three
\* timers as they were and dispatches nothing, also as the fifth or a later
\* failure in a row.
C35_SingleOutsideStateMachine ==
    [][ SingleApplied =>
           /\ pv_attempts_today' = pv_attempts_today + 1
           /\ IF AppliedOk
              THEN /\ pv_queries_today' = pv_queries_today + 1
                   /\ pv_consecutive_failures' = 0
              ELSE /\ pv_queries_today' = pv_queries_today
                   /\ pv_consecutive_failures' = pv_consecutive_failures + 1
           /\ ev'.armed = <<>> /\ ev'.cancelled = <<>> /\ ev'.started = <<>>
           /\ UNCHANGED <<pv_window_timer, pv_query_timer, pv_followup_timer>> ]_vars

\* the single update fails as the fifth failure in a row: no pause
C35_Witness ==
    /\ ev.op = "_finalize_pv_single" /\ ~ev.ok
    /\ pv_consecutive_failures >= PauseThreshold
    /\ ev.armed = <<>>

-----------------------------------------------------------------------------
(* The correction of the sum *)

total_queries(f) == f.queries_ramp_morning + f.queries_core + f.queries_ramp_evening

\* C36: for every budget and every window with a weighted total above 0 the
\* three floor counts add up to at most pv_max_queries, so the correction
\* leaves queries_core as int() gave it, and queries_core is not negative.
C36_FloorCountsWithinBudget ==
    (pc = "allocated" /\ weighted_total(StoredMinutes) > 0) =>
        LET f == FloorCounts(pv_max_queries, StoredMinutes)
            q == PhaseQueries(pv_max_queries, StoredMinutes)
        IN  /\ total_queries(f) <= pv_max_queries
            /\ q.queries_core = f.queries_core
            /\ q.queries_core >= 0
            /\ f.queries_ramp_morning >= 0 /\ f.queries_ramp_evening >= 0

\* three phases with a duration, the program's budget, and queries lost to
\* the cutting off
C36_Witness ==
    /\ pc = "allocated" /\ pv_max_queries = DailyBudget
    /\ StoredMinutes.ramp_morning_min > 0 /\ StoredMinutes.core_min > 0
    /\ StoredMinutes.ramp_evening_min > 0
    /\ total_queries(FloorCounts(pv_max_queries, StoredMinutes)) < pv_max_queries
    /\ FloorCounts(pv_max_queries, StoredMinutes).queries_ramp_evening > 0

-----------------------------------------------------------------------------
(* The twilight pair *)

\* the length of the bracket the running search was called with
InitialBracket == IF search.rising THEN t_noon - t_start ELSE t_end - t_noon

TwilightReturned == sky_ev.op = "get_civil_twilight_skyfield"

\* C37: the bracket of a search stays inside the bracket the search was
\* called with, and so does the instant it returns, whether or not the sun
\* crosses -6 degrees there; get_civil_twilight_skyfield returns (None, None)
\* or a pair with 00:00 <= dawn <= 12:00 <= dusk <= 23:59:59 of the date.
C37_TwilightPairOrdered ==
    /\ search.pc \in {"loop", "done"} =>
           /\ 0 <= search.start_t /\ search.start_t <= search.end_t
           /\ search.end_t <= InitialBracket
    /\ (search.pc = "done" /\ IsSome(search.ret)) =>
           /\ 0 <= utc_datetime(search.ret)
           /\ utc_datetime(search.ret) <= InitialBracket
    /\ TwilightReturned =>
           LET pair == Val(sky_ev.ret)
           IN  \/ pair = <<None, None>>
               \/ /\ IsSome(pair[1]) /\ IsSome(pair[2])
                  /\ t_start <= Val(pair[1]) /\ Val(pair[1]) <= t_noon
                  /\ t_noon <= Val(pair[2]) /\ Val(pair[2]) <= t_end

\* the sun stays below -6 degrees all day: both searches end at noon
C37_Witness ==
    /\ TwilightReturned
    /\ Val(sky_ev.ret)[1] = Some(t_noon)
    /\ IsSome(Val(sky_ev.ret)[2]) /\ Val(Val(sky_ev.ret)[2]) <= t_noon + 1
    /\ search.crossing < 0

-----------------------------------------------------------------------------
(* Solar noon *)

\* the instants 11:00, 11:05, ..., 14:55 of today, in minutes of the day
NoonSamples ==
    {hour * 60 + minute : hour \in NoonFirstHour..(NoonEndHour - 1),
                          minute \in {NoonStep * k : k \in 0..(60 \div NoonStep - 1)}}

\* the elevation of today's sun at t
Sampled(t) == DayElevation(t, solar_noon.culmination, solar_noon.height)

\* the highest elevation among the samples at the instants of T
MaxOver(T) == CHOOSE e \in {Sampled(t) : t \in T} : \A t \in T : Sampled(t) <= e

\* the first instant of the samples with the highest elevation
FirstMax == CHOOSE t \in NoonSamples :
                /\ Sampled(t) = MaxOver(NoonSamples)
                /\ \A u \in NoonSamples : Sampled(u) = MaxOver(NoonSamples) => t <= u

\* _calculate_solar_noon has returned after its loop
NoonReturned == solar_noon.pc = "done" /\ IsSome(Val(solar_noon.ret)[2])

\* the instant named by the string returned
NoonInstant == Val(Val(solar_noon.ret)[2])[1] * 60 + Val(Val(solar_noon.ret)[2])[2]

-----------------------------------------------------------------------------
(* Shutdown *)

\* C39: a first call of _shutdown cancels every pending PV timer and saves
\* the data once; a call made when _is_shutting_down is set cancels nothing,
\* saves nothing and leaves the timers as they are; a timer that was pending
\* when _shutdown ran is never pending again, so that it cannot fire; the
\* data are saved at most once.
C39_ShutdownCancelsOnce ==
    /\ [][ev'.op = "_shutdown" =>
             /\ _is_shutting_down'
             /\ IF _is_shutting_down
                THEN /\ ev'.cancelled = <<>>
                     /\ saved' = saved
                     /\ UNCHANGED <<pv_window_timer, pv_query_timer, pv_followup_timer>>
                ELSE /\ {ev'.cancelled[i] : i \in 1..Len(ev'.cancelled)} = PendingTimers
                     /\ saved' = saved + 1
                     /\ pv_window_timer' = None /\ pv_query_timer' = None
                     /\ pv_followup_timer' = None]_vars
    /\ [](\A t \in PendingTimers : <<t, Val(St[t])>> \notin shutdown_pending)
    /\ [](saved <= 1)

\* the signal came with a timer pending and a fetch in flight, and run()
\* has made its own call of _shutdown after the main loop
C39_Witness ==
    /\ pc = "returned" /\ _is_shutting_down /\ saved = 1
    /\ ev.op = "_shutdown" /\ ev.cancelled = <<>>
    /\ shutdown_pending # {} /\ PendingTimers = {}
    /\ pv_threads # <<>>

-----------------------------------------------------------------------------
(* The Netatmo lock *)

\* the workers between the acquire and the release of the lock
InFetchLoop == {i \in Workers : netatmo_threads[i].pc \in {"loop", "input", "sleep", "finally"}}

\* the workers that found the lock held and returned
Skipped == {i \in Workers : netatmo_threads[i].pc = "exit" /\ netatmo_threads[i].fetches = 0
                                /\ netatmo_threads[i].attempt = 0}

\* at most one worker is in the loop, it holds the lock, and the lock is
\* free when no worker is in the loop; no worker makes more than three
\* requests or hands over more than one result
LockDiscipline ==
    /\ Cardinality(InFetchLoop) <= 1
    /\ _netatmo_fetch_lock <=> InFetchLoop # {}
    /\ \A i \in Workers :
           /\ netatmo_threads[i].held <=> i \in InFetchLoop
           /\ netatmo_threads[i].fetches <= NetatmoAttempts
           /\ netatmo_threads[i].handed <= 1
           /\ netatmo_threads[i].pc = "exit" =>
                  netatmo_threads[i].handed <= netatmo_threads[i].fetches

\* C40 as stated: at most one worker is in the fetch/retry loop, a worker
\* that finds the lock held returns without a request, a worker makes at
\* most 3 requests and hands over at most one result, the lock is free when
\* the worker has left, and a held lock is always released in the end.
C40_NeverLockedOut ==
    /\ []LockDiscipline
    /\ _netatmo_fetch_lock ~> ~_netatmo_fetch_lock

====
